---------------------------- MODULE Spec2Model ----------------------------
(***************************************************************************)
(* A model of synthgen's data synthesis agent (agents/data_synth_agent.py) *)
(* over the schema model of models/ir.py.                                  *)
(*                                                                         *)
(* Spec      : DataSynthAgent.run with the row counts run derives itself   *)
(*             -- the generation scheduler (_determine_generation_order,   *)
(*             its recursive visit laid out on an explicit call stack)     *)
(*             followed by the per-table synthesis loop of run.            *)
(* SchedSpec : the scheduler alone.                                        *)
(* SynthSpec : one _generate_table_data call of run, with the oracle       *)
(*             sample and the row-by-row expansion of                      *)
(*             _algorithmic_generate_data and its primary-key repair loop. *)
(***************************************************************************)
EXTENDS Integers, Sequences, FiniteSets, TLC

(***************************************************************************)
(* Bounds of the model.                                                    *)
(***************************************************************************)
\* at most this many foreign keys on one table of a scheduled schema
MaxFks == 2
\* the repair loop of expansion is followed for at most this many passes
MaxSuffix == 12
\* the oracle's samples leave at most this many rows to expand
MaxExpand == 2

(***************************************************************************)
(* Names.  Table names are strings; str.lower() is given on the universe   *)
(* of names the model uses.  "users" is "Users" spelled in another case,   *)
(* "Ghost" is the name of no table.                                        *)
(***************************************************************************)
TableNames == <<"Users", "Orders", "Status">>

RefNames == {"Users", "Orders", "Status", "users", "Ghost"}

Lower(n) ==
    CASE n = "Users"  -> "users"
      [] n = "users"  -> "users"
      [] n = "Orders" -> "orders"
      [] n = "Status" -> "status"
      [] n = "Ghost"  -> "ghost"
      [] n = "Events" -> "events"
      [] n = "ID"     -> "id"
      [] OTHER        -> n

\* the letters table names are spelled in
UpperAlphabet ==
    <<"A", "B", "C", "D", "E", "F", "G", "H", "I", "J", "K", "L", "M",
      "N", "O", "P", "Q", "R", "S", "T", "U", "V", "W", "X", "Y", "Z">>

LowerAlphabet ==
    <<"a", "b", "c", "d", "e", "f", "g", "h", "i", "j", "k", "l", "m",
      "n", "o", "p", "q", "r", "s", "t", "u", "v", "w", "x", "y", "z">>

\* self.name.lower(), character by character
LowerName(chars) ==
    [k \in 1..Len(chars) |->
        IF \E u \in 1..26 : UpperAlphabet[u] = chars[k]
        THEN LowerAlphabet[CHOOSE u \in 1..26 : UpperAlphabet[u] = chars[k]]
        ELSE chars[k]]

\* the characters of each name of the model
Spelling(n) ==
    CASE n = "Users"      -> <<"U", "s", "e", "r", "s">>
      [] n = "users"      -> <<"u", "s", "e", "r", "s">>
      [] n = "Orders"     -> <<"O", "r", "d", "e", "r", "s">>
      [] n = "Status"     -> <<"S", "t", "a", "t", "u", "s">>
      [] n = "Ghost"      -> <<"G", "h", "o", "s", "t">>
      [] n = "Events"     -> <<"E", "v", "e", "n", "t", "s">>
      [] n = "OrderTypes" -> <<"O", "r", "d", "e", "r", "T", "y", "p", "e", "s">>
      [] n = "ZIPCODES"   -> <<"Z", "I", "P", "C", "O", "D", "E", "S">>
      [] n = "Lookup"     -> <<"L", "o", "o", "k", "u", "p">>
      [] n = "Stats"      -> <<"S", "t", "a", "t", "s">>

SpelledNames ==
    {"Users", "users", "Orders", "Status", "Ghost", "Events",
     "OrderTypes", "ZIPCODES", "Lookup", "Stats"}

\* reference_indicators = ["lookup", "reference", "type", "status", "code"]
ReferenceIndicators ==
    {<<"l", "o", "o", "k", "u", "p">>,
     <<"r", "e", "f", "e", "r", "e", "n", "c", "e">>,
     <<"t", "y", "p", "e">>,
     <<"s", "t", "a", "t", "u", "s">>,
     <<"c", "o", "d", "e">>}

\* needle in hay
Contains(hay, needle) ==
    \E i \in 0..(Len(hay) - Len(needle)) :
        \A k \in 1..Len(needle) : hay[i + k] = needle[k]

\* the names for which any(indicator in name_lower for indicator in ...) holds
IndicatorNames ==
    {n \in SpelledNames :
        \E indicator \in ReferenceIndicators : Contains(LowerName(Spelling(n)), indicator)}

\* Table.is_reference_table's name test
HasReferenceIndicator(n) == n \in IndicatorNames

(***************************************************************************)
(* Sequence helpers.                                                       *)
(***************************************************************************)
Range(s) == {s[i] : i \in 1..Len(s)}

RECURSIVE SelectSeqBy(_, _)
\* [x for x in s if Keep[x]]
SelectSeqBy(s, Keep) ==
    IF s = <<>> THEN <<>>
    ELSE IF Keep[Head(s)] THEN <<Head(s)>> \o SelectSeqBy(Tail(s), Keep)
         ELSE SelectSeqBy(Tail(s), Keep)

\* the positions of x in s
Positions(s, x) == {i \in 1..Len(s) : s[i] = x}

\* the position of the (single) occurrence of x in s, 0 when absent
Pos(s, x) == IF Positions(s, x) = {} THEN 0 ELSE CHOOSE i \in Positions(s, x) : TRUE

Min(a, b) == IF a <= b THEN a ELSE b

RECURSIVE SetToSeq(_)
SetToSeq(S) ==
    IF S = {} THEN <<>>
    ELSE LET x == CHOOSE y \in S : TRUE IN <<x>> \o SetToSeq(S \ {x})

(***************************************************************************)
(* Python values held by rows.  A number is kept in hundredths (n), so     *)
(* that the products of expansion on values with one decimal are exact; py *)
(* is the Python type, which == ignores (1 == 1.0).  A str is the sequence *)
(* of its characters (s).                                                  *)
(***************************************************************************)
NumV(hundredths, py) == [t |-> "num", n |-> hundredths, s |-> <<>>, py |-> py]
IntV(i) == NumV(100 * i, "int")
FloatV(hundredths) == NumV(hundredths, "float")
\* bool is a subclass of int: True == 1
BoolV(b) == NumV(IF b THEN 100 ELSE 0, "bool")
StrV(chars) == [t |-> "str", n |-> 0, s |-> chars, py |-> "str"]
NoneV == [t |-> "none", n |-> 0, s |-> <<>>, py |-> "NoneType"]

(***************************************************************************)
(* Constants of the program.                                               *)
(***************************************************************************)
\* _default_row_counts
RefTableDefaultRows == 5
JunctionDefaultRows == 25
DataTableDefaultRows == 50
\* run: row_counts.get(table_name, 10)
MissingRowCount == 10
\* _generate_synthetic_data: row_count <= 50 is left to the oracle alone
LlmOnlyLimit == 50
\* _generate_synthetic_data: min(20, row_count) rows are asked as the sample
SampleRequest == 20
\* Table.is_reference_table: len(self.columns) <= 5
RefTableMaxColumns == 5

(***************************************************************************)
(* The schema model (models/ir.py).                                        *)
(***************************************************************************)
\* Table.reference_data is None
NoReferenceData == [present |-> FALSE, rows |-> <<>>, distribution_strategy |-> "None"]

Column(name, kind, length) == [name |-> name, kind |-> kind, length |-> length]

ForeignKey(columns, refTable, refColumns) ==
    [columns |-> columns, ref_table |-> refTable, ref_columns |-> refColumns]

\* primary_key is a sequence of column names; <<>> is "no primary key"
Table(name, columns, pk, fks, refData) ==
    [name |-> name, columns |-> columns, primary_key |-> pk,
     foreign_keys |-> fks, reference_data |-> refData]

HasReferenceRows(t) == t.reference_data.present /\ Len(t.reference_data.rows) > 0

\* is_reference_table without the test of the primary key
IsReferenceTableAnyKey(t) ==
    \/ HasReferenceRows(t)
    \/ /\ HasReferenceIndicator(t.name)
       /\ Len(t.columns) <= RefTableMaxColumns

IsReferenceTable(t) ==
    \/ HasReferenceRows(t)
    \/ /\ HasReferenceIndicator(t.name)
       /\ Len(t.columns) <= RefTableMaxColumns
       /\ t.primary_key # <<>>

\* Schema.get_table: the first table whose lower-cased name matches, or None
TablesNamed(s, name) == {i \in 1..Len(s) : Lower(s[i].name) = Lower(name)}

HasTable(s, name) == TablesNamed(s, name) # {}

GetTable(s, name) ==
    LET i == CHOOSE j \in TablesNamed(s, name) : \A k \in TablesNamed(s, name) : j <= k
    IN  s[i]

GetReferenceTables(s) ==
    SelectSeqBy(s, [t \in Range(s) |-> IsReferenceTable(t)])

GetDataTables(s) ==
    SelectSeqBy(s, [t \in Range(s) |-> ~IsReferenceTable(t)])

NamesOf(ts) == [i \in 1..Len(ts) |-> ts[i].name]

DeclaredNames(s) == {s[i].name : i \in 1..Len(s)}

(***************************************************************************)
(* The schemas a run is given: three tables in declaration order, each     *)
(* with up to MaxFks foreign keys.  Users and Orders carry reference rows  *)
(* or not and name any name of RefNames; Status is a reference table by    *)
(* its name when it declares a primary key, and names declared tables.     *)
(***************************************************************************)
IdColumn == Column("id", "INTEGER", 0)

SomeReferenceData ==
    [present |-> TRUE, rows |-> <<[id |-> IntV(1)], [id |-> IntV(2)]>>, distribution_strategy |-> "None"]

FkSets == {D \in SUBSET RefNames : Cardinality(D) <= MaxFks}

FksTo(D) ==
    LET names == SetToSeq(D)
    IN  [i \in 1..Len(names) |-> ForeignKey(<<"id">>, names[i], <<"id">>)]

SchedTable(name, D, pk, refData) == Table(name, <<IdColumn>>, pk, FksTo(D), refData)

Schemas ==
    {<<SchedTable(TableNames[1], D1, <<"id">>, r1),
       SchedTable(TableNames[2], D2, <<"id">>, r2),
       SchedTable(TableNames[3], D3, pk3, NoReferenceData)>> :
        D1 \in FkSets, D2 \in FkSets, D3 \in FkSets \cap SUBSET Range(TableNames),
        r1 \in {NoReferenceData, SomeReferenceData},
        r2 \in {NoReferenceData, SomeReferenceData},
        pk3 \in {<<>>, <<"id">>}}


(***************************************************************************)
(* What the oracle (the LLM provider behind llm_call) may do with a        *)
(* request: raise, or answer a text that _parse_generated_data turns into  *)
(* a batch of rows (the empty batch when nothing parses).                  *)
(***************************************************************************)
OracleRaises == [raised |-> TRUE, rows |-> <<>>]

OracleOutcomes(batches) == {OracleRaises} \cup {[raised |-> FALSE, rows |-> b] : b \in batches}

\* the batch the oracle answers for the one-column tables of Schemas
SchedBatches == {<<[id |-> IntV(1)]>>}

(***************************************************************************)
(* State.                                                                  *)
(***************************************************************************)
VARIABLES
    pc,                \* "idle", "sched", "run", "gen", "done"; "raised" when an
                       \* exception left run
    schema,            \* the schema run was given
    given_row_counts,  \* the row_counts argument run was given
    row_counts,        \* run: row_counts
    oracle,            \* the batches the oracle may answer
    visited,           \* _determine_generation_order: visited
    temp_visited,      \*                              temp_visited
    generation_order,  \*                              generation_order
    stack,             \* the frames of visit: [name, todo]
    idx,               \* position of the loop over data_tables
    run_i,             \* run: position of the loop over generation_order
    calls,             \* run: the _generate_table_data calls that returned, each
                       \* with its rows and the llm_call requests it sent
    output_files,      \* run: output_files
    gen_key,           \* run: table_name of the current iteration
    gen_table,         \* _generate_table_data: table
    gen_rc,            \* _generate_table_data: row_count
    llm_calls,         \* the requests llm_call sent, in order
    gen_requests,      \* the requests the current _generate_table_data call sent
    sample_rows,       \* _generate_synthetic_data: the rows the oracle gave
    additional_rows,   \* _algorithmic_generate_data: additional_rows
    existing_pk_values,\*                             existing_pk_values
    new_row,           \*                             new_row
    suffix,            \*                             suffix of the repair loop
    remaining,         \* iterations left of `for _ in range(row_count)`
    generator,         \* the state of the generator of the module random
    agent_seeds,       \* the agents constructed: self.seed of each
    earlier_orders,    \* the lists earlier invocations of
                       \* _determine_generation_order returned for the schema
    convert_in,        \* the data _convert_data_types was given first
    convert_out,       \* what it returned, for that data and then for what
                       \* it had returned
    response,          \* the text _parse_generated_data was given
    parsed,            \* what it did: raised, or returned rows
    call_in,           \* the argument a function of models/ir.py or of the
                       \* reference-data attachment was called with
    call_out,          \* what it returned
    handler_pc,        \* handle_llm_error: "idle", "entered", "slept", "retrying",
                       \* "returned"
    retry_count,       \*   retry_count of the innermost call
    retries,           \*   the calls of retry_llm_call, each with its outcome
    waits,             \*   the exponents of the waits slept
    saved_errors,      \*   the number of save_error calls
    sampled            \* the expansions begun, each with its agent, the seed
                       \* of the agent and the indices random.choices gave it

vars == <<pc, schema, given_row_counts, row_counts, oracle, visited, temp_visited, generation_order,
          stack, idx, run_i, calls, output_files, gen_key, gen_table, gen_rc,
          llm_calls, gen_requests, sample_rows, additional_rows,
          existing_pk_values, new_row, suffix, remaining,
          generator, agent_seeds, sampled, earlier_orders,
          convert_in, convert_out, response, parsed, call_in, call_out,
          handler_pc, retry_count, retries, waits, saved_errors>>

retryVars == <<handler_pc, retry_count, retries, waits, saved_errors>>
seedVars == <<generator, agent_seeds, sampled>>
convVars == <<convert_in, convert_out, response, parsed, call_in, call_out, retryVars>>
inputVars == <<schema, given_row_counts, row_counts, oracle, seedVars, earlier_orders,
               convVars>>
schedVars == <<visited, temp_visited, generation_order, stack, idx>>
runVars == <<run_i, calls, output_files>>
genVars == <<gen_key, gen_table, gen_rc>>
expVars == <<gen_requests, sample_rows, additional_rows, existing_pk_values,
             new_row, suffix, remaining>>

(***************************************************************************)
(* _default_row_counts.                                                    *)
(***************************************************************************)
RECURSIVE SumLens(_)
SumLens(fks) == IF fks = <<>> THEN 0 ELSE Len(Head(fks).columns) + SumLens(Tail(fks))

\* sum(1 for fk in table.foreign_keys for _ in fk.columns)
FkColumnCount(t) == SumLens(t.foreign_keys)

DefaultRowCount(t) ==
    IF IsReferenceTable(t)
    THEN IF HasReferenceRows(t) THEN Len(t.reference_data.rows) ELSE RefTableDefaultRows
    ELSE IF FkColumnCount(t) > 0 /\ 2 * FkColumnCount(t) >= Len(t.columns)
         THEN JunctionDefaultRows
         ELSE DataTableDefaultRows

\* the dict: a later table of the same name overwrites an earlier one
DefaultRowCounts(s) ==
    [n \in DeclaredNames(s) |->
        LET i == CHOOSE j \in 1..Len(s) :
                    s[j].name = n /\ \A k \in 1..Len(s) : s[k].name = n => k <= j
        IN  DefaultRowCount(s[i])]

\* row_counts.get(table_name, 10)
RowCountFor(rc, name) == IF name \in DOMAIN rc THEN rc[name] ELSE MissingRowCount

(***************************************************************************)
(* _determine_generation_order.                                            *)
(***************************************************************************)
\* a slip: the edges recorded from the referenced table to the referencing one
DependenciesReversed(s, name) ==
    {t.name : t \in {u \in Range(s) :
                      \E k \in 1..Len(u.foreign_keys) : u.foreign_keys[k].ref_table = name}}

\* dependencies.get(table_name, set()): the names its foreign keys give for
\* a declared table, the empty set for any other name
Dependencies(s, name) ==
    IF name \in DeclaredNames(s)
    THEN UNION {{t.foreign_keys[k].ref_table : k \in 1..Len(t.foreign_keys)} :
                  t \in {u \in Range(s) : u.name = name}}
    ELSE {}

\* the effect of calling visit(n) up to its loop over the dependencies
VisitCall(n, tv, st) ==
    IF n \in visited \/ n \in tv
    THEN [temp_visited |-> tv, stack |-> st]
    ELSE [temp_visited |-> tv \cup {n},
          stack |-> Append(st, [name |-> n, todo |-> Dependencies(schema, n)])]

Top == stack[Len(stack)]
Pop == SubSeq(stack, 1, Len(stack) - 1)

\* the row_counts argument of run: None, or a dict from names to counts
NoRowCounts == [present |-> FALSE, counts |-> <<>>]

SomeRowCounts(counts) == [present |-> TRUE, counts |-> counts]

\* if row_counts is None: row_counts = self._default_row_counts(schema)
RowCountsOf(s, given) == IF given.present THEN given.counts ELSE DefaultRowCounts(s)

\* a slip: the order started empty, the reference tables marked visited
RunOrderStartsEmpty(s, given) ==
    /\ pc = "idle"
    /\ pc' = "sched"
    /\ schema' = s
    /\ given_row_counts' = given
    /\ row_counts' = RowCountsOf(s, given)
    /\ visited' = Range(NamesOf(GetReferenceTables(s)))
    /\ generation_order' = <<>>
    /\ temp_visited' = {}
    /\ stack' = <<>>
    /\ idx' = 1
    /\ UNCHANGED <<oracle, runVars, genVars, llm_calls, expVars, seedVars, earlier_orders,
                   convVars>>

\* run is called with a schema and row counts or None: without them the
\* defaults are taken; the scheduler starts with the reference tables emitted
Run(s, given) ==
    /\ pc = "idle"
    /\ pc' = "sched"
    /\ schema' = s
    /\ given_row_counts' = given
    /\ row_counts' = RowCountsOf(s, given)
    /\ visited' = Range(NamesOf(GetReferenceTables(s)))
    /\ generation_order' = NamesOf(GetReferenceTables(s))
    /\ temp_visited' = {}
    /\ stack' = <<>>
    /\ idx' = 1
    /\ UNCHANGED <<oracle, runVars, genVars, llm_calls, expVars, seedVars, earlier_orders,
                   convVars>>

\* the caller's choice of the schema, with no row counts
RunCalled == pc = "idle" /\ \E s \in Schemas : Run(s, NoRowCounts)

\* for table_name in data_tables: if table_name not in visited: visit(table_name)
LoopNext ==
    /\ pc = "sched"
    /\ stack = <<>>
    /\ idx <= Len(GetDataTables(schema))
    /\ LET n == GetDataTables(schema)[idx].name
           r == VisitCall(n, temp_visited, stack)
       IN  /\ temp_visited' = r.temp_visited
           /\ stack' = r.stack
    /\ idx' = idx + 1
    /\ UNCHANGED <<pc, inputVars, visited, generation_order, runVars, genVars, llm_calls, expVars>>

\* for dep in dependencies.get(table_name, set()): visit(dep)
\* (a set is iterated in an order the hash seed decides)
VisitDep ==
    /\ pc = "sched"
    /\ stack # <<>>
    /\ Top.todo # {}
    /\ \E dep \in Top.todo :
          LET st == [stack EXCEPT ![Len(stack)].todo = @ \ {dep}]
              r  == VisitCall(dep, temp_visited, st)
          IN  /\ temp_visited' = r.temp_visited
              /\ stack' = r.stack
    /\ UNCHANGED <<pc, inputVars, visited, generation_order, idx, runVars, genVars, llm_calls, expVars>>

\* a slip: the table appended and not marked visited
VisitReturnUnmarked ==
    /\ pc = "sched"
    /\ stack # <<>>
    /\ Top.todo = {}
    /\ temp_visited' = temp_visited \ {Top.name}
    /\ generation_order' = Append(generation_order, Top.name)
    /\ stack' = Pop
    /\ UNCHANGED <<pc, inputVars, visited, idx, runVars, genVars, llm_calls, expVars>>

\* the end of visit: the table is marked and appended
VisitReturn ==
    /\ pc = "sched"
    /\ stack # <<>>
    /\ Top.todo = {}
    /\ temp_visited' = temp_visited \ {Top.name}
    /\ visited' = visited \cup {Top.name}
    /\ generation_order' = Append(generation_order, Top.name)
    /\ stack' = Pop
    /\ UNCHANGED <<pc, inputVars, idx, runVars, genVars, llm_calls, expVars>>

\* return generation_order
SchedReturn ==
    /\ pc = "sched"
    /\ stack = <<>>
    /\ idx > Len(GetDataTables(schema))
    /\ pc' = "run"
    /\ run_i' = 1
    /\ UNCHANGED <<inputVars, schedVars, calls, output_files, genVars, llm_calls, expVars>>

(***************************************************************************)
(* run's loop over the order, and _generate_table_data.                    *)
(***************************************************************************)
\* table = schema.get_table(table_name); if table: _generate_table_data(...)
RunStep ==
    /\ pc = "run"
    /\ run_i <= Len(generation_order)
    /\ LET name == generation_order[run_i]
       IN  IF HasTable(schema, name)
           THEN /\ pc' = "gen"
                /\ gen_key' = name
                /\ gen_table' = GetTable(schema, name)
                /\ gen_rc' = RowCountFor(row_counts, name)
                /\ UNCHANGED run_i
           ELSE /\ run_i' = run_i + 1
                /\ UNCHANGED <<pc, genVars>>
    /\ UNCHANGED <<inputVars, schedVars, calls, output_files, llm_calls, expVars>>

\* _generate_table_data writes data and returns the file, which run stores
\* under table_name; requests are the llm_call requests the call sent
GenReturn(data, requests) ==
    /\ calls' = Append(calls, [key |-> gen_key, table |-> gen_table.name,
                               row_count |-> gen_rc, rows |-> data,
                               requests |-> requests])
    /\ output_files' = [k \in DOMAIN output_files \cup {gen_key} |->
                          IF k = gen_key THEN gen_table.name ELSE output_files[k]]
    /\ run_i' = run_i + 1
    /\ pc' = "run"

\* an exception leaves _generate_table_data and run
GenRaise ==
    /\ pc' = "raised"
    /\ UNCHANGED runVars

\* a slip: the stored rows cut to row_count
ReferenceRowsTruncated(t, rc) ==
    SubSeq(t.reference_data.rows, 1, Min(rc, Len(t.reference_data.rows)))

\* _use_reference_data: return table.reference_data.rows.copy()
ReferenceRows(t, rc) == t.reference_data.rows

\* a slip: the stored rows are moved out of the table, not copied
UseReferenceDataInPlace ==
    /\ pc = "gen"
    /\ IsReferenceTable(gen_table) /\ HasReferenceRows(gen_table)
    /\ GenReturn(ReferenceRows(gen_table, gen_rc), <<>>)
    /\ schema' = [i \in 1..Len(schema) |->
                     IF schema[i] = gen_table
                     THEN [schema[i] EXCEPT !.reference_data.rows = <<>>]
                     ELSE schema[i]]
    /\ UNCHANGED <<given_row_counts, row_counts, oracle, seedVars, earlier_orders,
                   convVars, schedVars, genVars, llm_calls, expVars>>

UseReferenceData ==
    /\ pc = "gen"
    /\ IsReferenceTable(gen_table) /\ HasReferenceRows(gen_table)
    /\ GenReturn(ReferenceRows(gen_table, gen_rc), <<>>)
    /\ UNCHANGED <<inputVars, schedVars, genVars, llm_calls, expVars>>

(***************************************************************************)
(* Python conversions used by expansion.                                   *)
(***************************************************************************)
DigitChars == <<"0", "1", "2", "3", "4", "5", "6", "7", "8", "9">>

RECURSIVE Digits(_)
\* str(i) for an int i >= 0
Digits(i) ==
    IF i < 10 THEN <<DigitChars[i + 1]>>
    ELSE Digits(i \div 10) \o <<DigitChars[(i % 10) + 1]>>

\* the digit a character writes, -1 for any other character
DigitOf(c) ==
    IF \E d \in 1..10 : DigitChars[d] = c
    THEN (CHOOSE d \in 1..10 : DigitChars[d] = c) - 1
    ELSE -1

RECURSIVE DigitsValue(_)
DigitsValue(chars) ==
    IF chars = <<>> THEN 0
    ELSE 10 * DigitsValue(SubSeq(chars, 1, Len(chars) - 1)) + DigitOf(chars[Len(chars)])

\* int(x) cuts towards zero
Trunc(n) == IF n >= 0 THEN (n \div 100) * 100 ELSE 0 - (((0 - n) \div 100) * 100)

\* int(v): a number is cut, a str of digits is read, anything else raises
\* (TypeError for None, ValueError for a str that writes no integer)
PyInt(v) ==
    CASE v.t = "num" -> [ok |-> TRUE, n |-> Trunc(v.n)]
      [] v.t = "str" ->
            IF v.s # <<>> /\ \A k \in 1..Len(v.s) : DigitOf(v.s[k]) >= 0
            THEN [ok |-> TRUE, n |-> 100 * DigitsValue(v.s)]
            ELSE [ok |-> FALSE, n |-> 0]
      [] OTHER -> [ok |-> FALSE, n |-> 0]

\* float(v): a number is kept, a str that writes a decimal number with at
\* most two decimals is read, anything else raises
PyFloat(v) ==
    CASE v.t = "num" -> [ok |-> TRUE, n |-> v.n]
      [] v.t = "str" ->
            LET dots == {k \in 1..Len(v.s) : v.s[k] = "."}
                dot  == IF dots = {} THEN Len(v.s) + 1 ELSE CHOOSE k \in dots : TRUE
                int  == SubSeq(v.s, 1, dot - 1)
                frac == SubSeq(v.s, dot + 1, Len(v.s))
            IN  IF /\ Cardinality(dots) <= 1
                   /\ int # <<>>
                   /\ \A k \in 1..Len(v.s) : k = dot \/ DigitOf(v.s[k]) >= 0
                   /\ Len(frac) <= 2
                   /\ dots # {} => frac # <<>>
                THEN [ok |-> TRUE,
                      n |-> 100 * DigitsValue(int) +
                            (IF Len(frac) = 1 THEN 10 * DigitsValue(frac)
                             ELSE DigitsValue(frac))]
                ELSE [ok |-> FALSE, n |-> 0]
      [] OTHER -> [ok |-> FALSE, n |-> 0]

UpperLetters == <<"A", "E", "F", "L", "N", "O", "R", "S", "T", "U", "Y">>

LowerLetters == <<"a", "e", "f", "l", "n", "o", "r", "s", "t", "u", "y">>

\* str.lower(), on the letters the values of the model are written in
LowerChars(chars) ==
    [k \in 1..Len(chars) |->
        IF \E u \in 1..Len(UpperLetters) : UpperLetters[u] = chars[k]
        THEN LowerLetters[CHOOSE u \in 1..Len(UpperLetters) : UpperLetters[u] = chars[k]]
        ELSE chars[k]]

\* str(v)
PyStr(v) ==
    CASE v.t = "str" -> v.s
      [] v.t = "none" -> <<"N", "o", "n", "e">>
      [] v.py = "bool" -> IF v.n = 0 THEN <<"F", "a", "l", "s", "e">>
                          ELSE <<"T", "r", "u", "e">>
      [] OTHER ->
            LET a    == IF v.n >= 0 THEN v.n ELSE 0 - v.n
                sign == IF v.n >= 0 THEN <<>> ELSE <<"-">>
                frac == IF (a % 100) % 10 = 0
                        THEN <<DigitChars[((a % 100) \div 10) + 1]>>
                        ELSE <<DigitChars[((a % 100) \div 10) + 1],
                               DigitChars[((a % 100) % 10) + 1]>>
            IN  IF v.py = "int" THEN sign \o Digits(a \div 100)
                ELSE sign \o Digits(a \div 100) \o <<".">> \o frac

\* the value as == and hash see it: 1 and 1.0 are one key
PkKey(v) == [t |-> v.t, n |-> v.n, s |-> v.s]

\* row.get(key): None when the key is absent
Get(row, key) == IF key \in DOMAIN row THEN row[key] ELSE NoneV

\* row.get(key, default)
GetOr(row, key, default) == IF key \in DOMAIN row THEN row[key] ELSE default

\* row[key] = value
Put(row, key, value) ==
    [k \in DOMAIN row \cup {key} |-> IF k = key THEN value ELSE row[k]]

(***************************************************************************)
(* Columns (models/ir.py).                                                 *)
(***************************************************************************)
IntegerTypes == {"INTEGER", "BIGINT", "SMALLINT", "TINYINT"}

NumericTypes == IntegerTypes \cup {"DECIMAL", "NUMERIC", "FLOAT", "REAL", "MONEY"}

StringTypes == {"CHAR", "VARCHAR", "TEXT", "NCHAR", "NVARCHAR", "NTEXT"}

IsNumeric(c) == c.kind \in NumericTypes

IsString(c) == c.kind \in StringTypes

\* Table.get_column: the first column whose lower-cased name matches, or None
ColumnsNamed(t, name) == {i \in 1..Len(t.columns) : Lower(t.columns[i].name) = Lower(name)}

HasColumn(t, name) == ColumnsNamed(t, name) # {}

GetColumn(t, name) ==
    LET i == CHOOSE j \in ColumnsNamed(t, name) : \A k \in ColumnsNamed(t, name) : j <= k
    IN  t.columns[i]

(***************************************************************************)
(* _convert_data_types.                                                    *)
(***************************************************************************)
\* Column.is_boolean
IsBoolean(c) == c.kind = "BIT"

TrueTokens == {<<"t", "r", "u", "e">>, <<"t">>, <<"y", "e", "s">>, <<"y">>, <<"1">>}

FalseTokens == {<<"f", "a", "l", "s", "e">>, <<"f">>, <<"n", "o">>, <<"n">>, <<"0">>}

\* a slip: repr(value) for str(value), which quotes a str
ConvertValueRepr(t, key, value) ==
    IF HasColumn(t, key)
    THEN LET column == GetColumn(t, key)
         IN  IF value.t = "none" THEN NoneV
             ELSE IF IsNumeric(column)
                  THEN LET r == IF column.kind \in IntegerTypes
                                THEN PyInt(value) ELSE PyFloat(value)
                       IN  IF ~r.ok THEN value
                           ELSE IF column.kind \in IntegerTypes
                                THEN NumV(r.n, "int") ELSE NumV(r.n, "float")
             ELSE IF IsBoolean(column)
                  THEN IF value.py = "bool" THEN value
                       ELSE IF LowerChars(PyStr(value)) \in TrueTokens THEN BoolV(TRUE)
                       ELSE IF LowerChars(PyStr(value)) \in FalseTokens THEN BoolV(FALSE)
                       ELSE value
             ELSE IF value.t = "str" THEN StrV(<<"'">> \o value.s \o <<"'">>)
                  ELSE StrV(PyStr(value))
    ELSE value

\* the value stored under a key of the row
ConvertValue(t, key, value) ==
    IF HasColumn(t, key)
    THEN LET column == GetColumn(t, key)
         IN  IF value.t = "none" THEN NoneV
             ELSE IF IsNumeric(column)
                  THEN LET r == IF column.kind \in IntegerTypes
                                THEN PyInt(value) ELSE PyFloat(value)
                       IN  IF ~r.ok THEN value
                           ELSE IF column.kind \in IntegerTypes
                                THEN NumV(r.n, "int") ELSE NumV(r.n, "float")
             ELSE IF IsBoolean(column)
                  THEN IF value.py = "bool" THEN value
                       ELSE IF LowerChars(PyStr(value)) \in TrueTokens THEN BoolV(TRUE)
                       ELSE IF LowerChars(PyStr(value)) \in FalseTokens THEN BoolV(FALSE)
                       ELSE value
             ELSE StrV(PyStr(value))
    ELSE value

\* a slip: a key that names no column is dropped
ConvertRowKnownKeys(t, row) ==
    [k \in {x \in DOMAIN row : HasColumn(t, x)} |-> ConvertValue(t, k, row[k])]

ConvertRow(t, row) == [k \in DOMAIN row |-> ConvertValue(t, k, row[k])]

ConvertDataTypes(t, data) == [i \in 1..Len(data) |-> ConvertRow(t, data[i])]

\* _parse_generated_data on an answer whose text is the JSON array of the
\* rows: json.loads gives the rows, _convert_data_types their types
ParseRowsAnswer(t, rows) == ConvertDataTypes(t, rows)

(***************************************************************************)
(* _llm_generate_data and _generate_synthetic_data with row_count <= 50.   *)
(***************************************************************************)
\* a slip: llm_call outside the try
LlmGenerateDataUncaught(t, outcome) ==
    IF outcome.raised THEN [raised |-> TRUE, rows |-> <<>>]
    ELSE [raised |-> FALSE, rows |-> ParseRowsAnswer(t, outcome.rows)]

\* _llm_generate_data: the rows parsed from the answer; an exception of
\* llm_call is caught and [] returned
LlmGenerateData(t, outcome) ==
    IF outcome.raised THEN [raised |-> FALSE, rows |-> <<>>]
    ELSE [raised |-> FALSE, rows |-> ParseRowsAnswer(t, outcome.rows)]

LlmRequest(t, n, outcome) == [table |-> t.name, rows |-> n, raised |-> outcome.raised]

\* _generate_synthetic_data with row_count <= 50
LlmGenerate ==
    /\ pc = "gen"
    /\ ~(IsReferenceTable(gen_table) /\ HasReferenceRows(gen_table))
    /\ gen_rc <= LlmOnlyLimit
    /\ \E o \in OracleOutcomes(oracle) :
          LET r == LlmGenerateData(gen_table, o)
              q == <<LlmRequest(gen_table, gen_rc, o)>>
          IN  /\ llm_calls' = llm_calls \o q
              /\ IF r.raised THEN GenRaise ELSE GenReturn(r.rows, q)
    /\ UNCHANGED <<inputVars, schedVars, genVars, expVars>>

(***************************************************************************)
(* _algorithmic_generate_data: the parts that are functions.               *)
(***************************************************************************)
\* random.uniform(0.8, 1.2), in tenths: the lower end and two values inside
Variations == {8, 10, 11}

\* ''.join(random.choices('abcdefghijklmnopqrstuvwxyz', k=2)), over two letters
LetterPairs == {<<x, y>> : x, y \in {"a", "b"}}

\* s[:k]
FirstChars(s, k) == IF Len(s) <= k THEN s ELSE SubSeq(s, 1, k)

\* s[-k:] for k > 0
LastChars(s, k) == IF Len(s) <= k THEN s ELSE SubSeq(s, Len(s) - k + 1, Len(s))

\* the value a new row gets under a key of the template that names a column
NewValue(column, value, variation, letters) ==
    IF IsNumeric(column)
    THEN IF value.t = "num"
         THEN LET product == (value.n * variation) \div 10
              IN  IF column.kind \in IntegerTypes
                  THEN NumV(Trunc(product), "int")
                  ELSE NumV(product, "float")
         ELSE value
    ELSE IF IsString(column)
         THEN IF value.t = "str"
              THEN IF column.length # 0
                   THEN StrV(LastChars(FirstChars(value.s, 5) \o letters, column.length))
                   ELSE StrV(FirstChars(value.s, 5) \o letters)
              ELSE StrV(PyStr(value))
         ELSE value

\* the keys of the template that name a column of the table
TemplateKeys(t, template) == {k \in DOMAIN template : HasColumn(t, k)}

\* the keys whose new value takes a random draw
VariedKeys(t, template) ==
    {k \in TemplateKeys(t, template) :
        IsNumeric(GetColumn(t, k)) /\ template[k].t = "num"}

LetteredKeys(t, template) ==
    {k \in TemplateKeys(t, template) :
        IsString(GetColumn(t, k)) /\ template[k].t = "str"}

\* the new row after the loop over template_row.items()
FromTemplate(t, template, variation, letters) ==
    [k \in TemplateKeys(t, template) |->
        NewValue(GetColumn(t, k), template[k],
                 IF k \in DOMAIN variation THEN variation[k] ELSE 10,
                 IF k \in DOMAIN letters THEN letters[k] ELSE <<>>)]

\* tuple(row.get(col) for col in pk_columns)
PkTuple(t, row) == [i \in 1..Len(t.primary_key) |-> PkKey(Get(row, t.primary_key[i]))]

\* float(row.get("weight", 1.0)), in hundredths
RowWeight(row) == IF "weight" \in DOMAIN row THEN row["weight"].n ELSE 100

RECURSIVE SumSeq(_)
SumSeq(ws) == IF ws = <<>> THEN 0 ELSE Head(ws) + SumSeq(Tail(ws))

\* ReferenceData.get_weighted_distribution, before the division by the total
\* (which changes no weight's sign)
WeightedDistribution(refData) ==
    IF \E i \in 1..Len(refData.rows) : "weight" \in DOMAIN refData.rows[i]
    THEN [i \in 1..Len(refData.rows) |-> RowWeight(refData.rows[i])]
    ELSE [i \in 1..Len(refData.rows) |-> 100]

\* one entry of fk_mappings: the value lists of the reference rows that hold
\* every referenced column, and the weights when the strategy asks for them
FkMapping(fk, refData) ==
    LET rows == SelectSeq(refData.rows,
                          LAMBDA r : \A i \in 1..Len(fk.ref_columns) :
                                        fk.ref_columns[i] \in DOMAIN r)
    IN  [columns |-> fk.columns,
         valid_values |-> [i \in 1..Len(rows) |->
                             [j \in 1..Len(fk.ref_columns) |-> rows[i][fk.ref_columns[j]]]],
         weighted |-> refData.distribution_strategy = "weighted_random",
         weights |-> WeightedDistribution(refData)]

RECURSIVE FkMappingsFrom(_, _, _)
\* fk_mappings, a dict keyed by tuple(fk.columns): a later foreign key on the
\* same columns replaces the entry and keeps its place
FkMappingsFrom(s, fks, acc) ==
    IF fks = <<>> THEN acc
    ELSE LET fk == Head(fks)
         IN  IF HasTable(s, fk.ref_table) /\ HasReferenceRows(GetTable(s, fk.ref_table))
             THEN LET m  == FkMapping(fk, GetTable(s, fk.ref_table).reference_data)
                      at == {i \in 1..Len(acc) : acc[i].columns = fk.columns}
                  IN  FkMappingsFrom(s, Tail(fks),
                         IF at = {} THEN Append(acc, m)
                         ELSE [acc EXCEPT ![CHOOSE i \in at : TRUE] = m])
             ELSE FkMappingsFrom(s, Tail(fks), acc)

FkMappings(s, t) == FkMappingsFrom(s, t.foreign_keys, <<>>)

\* random.choices(indices, weights=weight_values) raises ValueError when the
\* two lists differ in length or the weights sum to nothing
DrawRaises(m) ==
    /\ m.valid_values # <<>>
    /\ m.weighted
    /\ \/ Len(m.weights) # Len(m.valid_values)
       \/ SumSeq(m.weights) <= 0

\* the indices the draw for a mapping may give; 0 stands for no draw
Draws(m) ==
    IF m.valid_values = <<>> THEN {0}
    ELSE IF m.weighted
         THEN {i \in 1..Len(m.valid_values) : m.weights[i] > 0}
         ELSE 1..Len(m.valid_values)

RECURSIVE AssignAll(_, _, _, _)
\* for i, col in enumerate(fk_columns): if i < len(selected_values): ...
AssignAll(row, columns, values, i) ==
    IF i > Len(columns) \/ i > Len(values) THEN row
    ELSE AssignAll(Put(row, columns[i], values[i]), columns, values, i + 1)

RECURSIVE AssignForeignKeys(_, _, _, _)
\* the loop over fk_mappings.items() with the draws pick
AssignForeignKeys(row, maps, pick, k) ==
    IF k > Len(maps) THEN row
    ELSE IF pick[k] = 0 THEN AssignForeignKeys(row, maps, pick, k + 1)
         ELSE AssignForeignKeys(
                  AssignAll(row, maps[k].columns, maps[k].valid_values[pick[k]], 1),
                  maps, pick, k + 1)

RECURSIVE RepairRow(_, _, _, _)
\* one pass of the repair loop's body over pk_columns
RepairRow(t, row, cols, sfx) ==
    IF cols = <<>> THEN [raised |-> FALSE, row |-> row]
    ELSE LET col == Head(cols)
         IN  IF HasColumn(t, col) /\ IsNumeric(GetColumn(t, col))
             THEN LET i == PyInt(GetOr(row, col, IntV(0)))
                  IN  IF i.ok
                      THEN RepairRow(t, Put(row, col, NumV(i.n + 100 * sfx, "int")),
                                     Tail(cols), sfx)
                      ELSE [raised |-> TRUE, row |-> row]
             ELSE IF HasColumn(t, col) /\ IsString(GetColumn(t, col))
                  THEN LET base == PyStr(GetOr(row, col, StrV(<<>>)))
                       IN  RepairRow(t, Put(row, col, StrV(base \o <<"_">> \o Digits(sfx))),
                                     Tail(cols), sfx)
                  ELSE RepairRow(t, row, Tail(cols), sfx)

(***************************************************************************)
(* _generate_synthetic_data with row_count > 50, and the loops of          *)
(* _algorithmic_generate_data.                                             *)
(***************************************************************************)
\* the draws of one iteration for the foreign keys: an index for each mapping
Picks(maps) ==
    {p \in [1..Len(maps) -> UNION {Draws(maps[k]) : k \in 1..Len(maps)}] :
        \A k \in 1..Len(maps) : p[k] \in Draws(maps[k])}

\* existing_pk_values as the loop over sample_rows leaves it
SeedPkValues(t, rows) ==
    IF t.primary_key # <<>> THEN {PkTuple(t, rows[i]) : i \in 1..Len(rows)} ELSE {}

\* the sample is asked from the oracle; without one, or with one that fills
\* the count, the sample is the result; else expansion starts
LlmSample ==
    /\ pc = "gen"
    /\ ~(IsReferenceTable(gen_table) /\ HasReferenceRows(gen_table))
    /\ gen_rc > LlmOnlyLimit
    /\ \E o \in OracleOutcomes(oracle) :
          LET r == LlmGenerateData(gen_table, o)
              q == <<LlmRequest(gen_table, Min(SampleRequest, gen_rc), o)>>
          IN  /\ llm_calls' = llm_calls \o q
              /\ gen_requests' = q
              /\ IF r.raised
                 THEN /\ GenRaise
                      /\ UNCHANGED <<sample_rows, additional_rows, existing_pk_values, remaining>>
                 ELSE /\ sample_rows' = r.rows
                      /\ additional_rows' = <<>>
                      /\ IF Len(r.rows) >= gen_rc \/ r.rows = <<>>
                         THEN /\ GenReturn(r.rows, q)
                              /\ UNCHANGED <<existing_pk_values, remaining>>
                         ELSE /\ existing_pk_values' = SeedPkValues(gen_table, r.rows)
                              /\ remaining' = gen_rc - Len(r.rows)
                              /\ pc' = "expand"
                              /\ UNCHANGED runVars
    /\ UNCHANGED <<inputVars, schedVars, genVars, new_row, suffix>>

\* one iteration of `for _ in range(row_count)` up to the repair loop
ExpandRow ==
    /\ pc = "expand"
    /\ remaining > 0
    /\ LET maps == FkMappings(schema, gen_table)
       IN  IF \E k \in 1..Len(maps) : DrawRaises(maps[k])
           THEN /\ GenRaise
                /\ UNCHANGED <<additional_rows, new_row, suffix, remaining>>
           ELSE \E i \in 1..Len(sample_rows) :
                \E variation \in [VariedKeys(gen_table, sample_rows[i]) -> Variations],
                   letters \in [LetteredKeys(gen_table, sample_rows[i]) -> LetterPairs],
                   pick \in Picks(maps) :
                    LET row == AssignForeignKeys(
                                   FromTemplate(gen_table, sample_rows[i], variation, letters),
                                   maps, pick, 1)
                    IN  IF gen_table.primary_key = <<>>
                        THEN /\ additional_rows' = Append(additional_rows, row)
                             /\ remaining' = remaining - 1
                             /\ UNCHANGED <<pc, new_row, suffix, runVars>>
                        ELSE /\ new_row' = row
                             /\ suffix' = 1
                             /\ pc' = "repair"
                             /\ UNCHANGED <<additional_rows, remaining, runVars>>
    /\ UNCHANGED <<inputVars, schedVars, genVars, llm_calls, gen_requests, sample_rows,
                   existing_pk_values>>

\* while pk_value in existing_pk_values: the body, followed up to MaxSuffix
RepairStep ==
    /\ pc = "repair"
    /\ PkTuple(gen_table, new_row) \in existing_pk_values
    /\ suffix <= MaxSuffix
    /\ LET r == RepairRow(gen_table, new_row, gen_table.primary_key, suffix)
       IN  IF r.raised
           THEN /\ GenRaise
                /\ UNCHANGED <<new_row, suffix>>
           ELSE /\ new_row' = r.row
                /\ suffix' = suffix + 1
                /\ UNCHANGED <<pc, runVars>>
    /\ UNCHANGED <<inputVars, schedVars, genVars, llm_calls, gen_requests, sample_rows,
                   additional_rows, existing_pk_values, remaining>>

\* the loop left: the tuple is recorded and the row appended
RepairDone ==
    /\ pc = "repair"
    /\ PkTuple(gen_table, new_row) \notin existing_pk_values
    /\ existing_pk_values' = existing_pk_values \cup {PkTuple(gen_table, new_row)}
    /\ additional_rows' = Append(additional_rows, new_row)
    /\ remaining' = remaining - 1
    /\ pc' = "expand"
    /\ UNCHANGED <<inputVars, schedVars, runVars, genVars, llm_calls, gen_requests,
                   sample_rows, new_row, suffix>>

\* return additional_rows; sample_rows.extend(additional_rows); return
ExpandReturn ==
    /\ pc = "expand"
    /\ remaining <= 0
    /\ GenReturn(sample_rows \o additional_rows, gen_requests)
    /\ UNCHANGED <<inputVars, schedVars, genVars, llm_calls, expVars>>

RunDone ==
    /\ pc = "run"
    /\ run_i > Len(generation_order)
    /\ pc' = "done"
    /\ UNCHANGED <<inputVars, schedVars, runVars, genVars, llm_calls, expVars>>

\* handle_llm_error is not called
NoRetries ==
    /\ handler_pc = "idle"
    /\ retry_count = 0
    /\ retries = <<>>
    /\ waits = <<>>
    /\ saved_errors = 0

\* the state of the run's variables before run is called
InitRun ==
    /\ pc = "idle"
    /\ schema = <<>>
    /\ given_row_counts = NoRowCounts
    /\ row_counts = <<>>
    /\ oracle = SchedBatches
    /\ visited = {}
    /\ temp_visited = {}
    /\ generation_order = <<>>
    /\ stack = <<>>
    /\ idx = 1
    /\ run_i = 1
    /\ calls = <<>>
    /\ output_files = <<>>
    /\ gen_key = ""
    /\ gen_table = Table("", <<>>, <<>>, <<>>, NoReferenceData)
    /\ gen_rc = 0
    /\ llm_calls = <<>>
    /\ gen_requests = <<>>
    /\ sample_rows = <<>>
    /\ additional_rows = <<>>
    /\ existing_pk_values = {}
    /\ new_row = <<>>
    /\ suffix = 1
    /\ remaining = 0

\* no agent is constructed yet; the draws of the expansion are choices of
\* ExpandRow, and the generator is read by the draws of SeedSpec only, which
\* starts from every state of it
Init ==
    /\ InitRun
    /\ generator = 0
    /\ agent_seeds = <<>>
    /\ sampled = <<>>
    /\ earlier_orders = <<>>
    /\ convert_in = <<>>
    /\ convert_out = <<>>
    /\ response = <<>>
    /\ parsed = <<>>
    /\ call_in = <<>>
    /\ call_out = <<>>
    /\ NoRetries

Next ==
    \/ RunCalled
    \/ LoopNext
    \/ VisitDep
    \/ VisitReturn
    \/ SchedReturn
    \/ RunStep
    \/ UseReferenceData
    \/ LlmGenerate
    \/ RunDone

Spec == Init /\ [][Next]_vars

(***************************************************************************)
(* SynthSpec: run at one entry of the order, about to call                 *)
(* _generate_table_data for it.  The schemas declare the reference table   *)
(* Status with its two rows and one data table after it; the data table is *)
(* asked with the first row count past LlmOnlyLimit, and the oracle        *)
(* answers nothing, or a batch that leaves up to MaxExpand rows to expand, *)
(* fills the count or exceeds it.                                          *)
(***************************************************************************)
StatusTable == Table("Status", <<IdColumn>>, <<"id">>, <<>>, SomeReferenceData)

\* the reference rows read from a CSV file: every value is a str
CsvReferenceData ==
    [present |-> TRUE, rows |-> <<[id |-> StrV(<<"1">>)], [id |-> StrV(<<"2">>)]>>,
     distribution_strategy |-> "None"]

StatusFromCsv == Table("Status", <<IdColumn>>, <<"id">>, <<>>, CsvReferenceData)

CodeColumn == Column("code", "INTEGER", 0)

StatusFk == ForeignKey(<<"code">>, "Status", <<"id">>)

\* a key of its own, no foreign key
OrdersById == Table("Orders", <<IdColumn>>, <<"id">>, <<>>, NoReferenceData)

\* a key of its own and a foreign key to Status
OrdersWithStatus ==
    Table("Orders", <<IdColumn, CodeColumn>>, <<"id">>, <<StatusFk>>, NoReferenceData)

\* the primary key column is the foreign key column
OrdersByCode == Table("Orders", <<CodeColumn>>, <<"code">>, <<StatusFk>>, NoReferenceData)

\* a primary key that is neither numeric nor string
EventsByDay ==
    Table("Events", <<Column("day", "DATE", 0)>>, <<"day">>, <<>>, NoReferenceData)

\* a primary key that names a column the table does not have
OrdersByMissingKey == Table("Orders", <<IdColumn>>, <<"sku">>, <<>>, NoReferenceData)

\* a string primary key of declared length 2
UsersByName ==
    Table("Users", <<Column("name", "VARCHAR", 2)>>, <<"name">>, <<>>, NoReferenceData)

IdSeed(k) == [i \in 1..k |-> [id |-> IntV(i)]]
\* the second row repeats the first row's key
DupSeed(k) == [i \in 1..k |-> [id |-> IntV(IF i = 2 THEN 1 ELSE i)]]
\* the first row holds null for the key
NoneSeed(k) == [i \in 1..k |-> [id |-> IF i = 1 THEN NoneV ELSE IntV(i)]]
IdCodeSeed(k) == [i \in 1..k |-> [id |-> IntV(i), code |-> IntV(1 + (i % 2))]]
CodeSeed(k) == [i \in 1..k |-> [code |-> IntV(i)]]
DaySeed(k) == [i \in 1..k |-> [day |-> StrV(<<"d">> \o Digits(i))]]
NameSeed(k) == [i \in 1..k |-> [name |-> StrV(Digits(10 + i))]]

HybridCount == LlmOnlyLimit + 1

SeedSizes == (HybridCount - MaxExpand)..(HybridCount + 1)

SynthCase(t, pos, rc, batches) ==
    [schema |-> <<StatusTable, t>>, pos |-> pos, row_count |-> rc, batches |-> batches]

SynthCases ==
    {SynthCase(OrdersById, 1, rc, {IdSeed(1)}) : rc \in {1, 2, 3, HybridCount}}
    \cup {SynthCase(OrdersById, 2, 2, {<<>>, IdSeed(1), IdSeed(2)})}
    \cup {SynthCase(OrdersById, 2, HybridCount,
                    {<<>>, DupSeed(HybridCount - 1), NoneSeed(HybridCount - 1)}
                    \cup {IdSeed(k) : k \in SeedSizes})}
    \cup {SynthCase(OrdersWithStatus, 2, HybridCount, {IdCodeSeed(HybridCount - 1)})}
    \cup {SynthCase(OrdersByCode, 2, HybridCount, {CodeSeed(HybridCount - 1)})}
    \cup {SynthCase(EventsByDay, 2, HybridCount, {DaySeed(HybridCount - 1)})}
    \cup {SynthCase(UsersByName, 2, HybridCount, {NameSeed(k) : k \in SeedSizes})}
    \cup {SynthCase(OrdersByMissingKey, 2, rc, {IdSeed(rc - 1)}) : rc \in {2, HybridCount}}
    \cup {[schema |-> <<StatusFromCsv, OrdersWithStatus>>, pos |-> 2,
           row_count |-> HybridCount, batches |-> {IdCodeSeed(HybridCount - 1)}]}

\* the calls run made for the entries before pos: the reference table's
CallsBefore(s, pos) ==
    [i \in 1..(pos - 1) |->
        [key |-> s[i].name, table |-> s[i].name,
         row_count |-> DefaultRowCount(s[i]),
         rows |-> ReferenceRows(s[i], DefaultRowCount(s[i])),
         requests |-> <<>>]]

SynthInit ==
    \E c \in SynthCases :
        /\ pc = "gen"
        /\ schema = c.schema
        /\ given_row_counts = SomeRowCounts([n \in {c.schema[c.pos].name} |-> c.row_count])
        /\ row_counts = [n \in DeclaredNames(c.schema) |->
                            IF n = c.schema[c.pos].name THEN c.row_count
                            ELSE DefaultRowCounts(c.schema)[n]]
        /\ oracle = c.batches
        /\ visited = DeclaredNames(c.schema)
        /\ temp_visited = {}
        /\ generation_order = NamesOf(c.schema)
        /\ stack = <<>>
        /\ idx = Len(GetDataTables(c.schema)) + 1
        /\ run_i = c.pos
        /\ calls = CallsBefore(c.schema, c.pos)
        /\ output_files = [n \in {c.schema[i].name : i \in 1..(c.pos - 1)} |-> n]
        /\ gen_key = c.schema[c.pos].name
        /\ gen_table = c.schema[c.pos]
        /\ gen_rc = c.row_count
        /\ llm_calls = <<>>
        /\ gen_requests = <<>>
        /\ sample_rows = <<>>
        /\ additional_rows = <<>>
        /\ existing_pk_values = {}
        /\ new_row = <<>>
        /\ suffix = 1
        /\ remaining = 0
        /\ generator = 0
        /\ agent_seeds = <<>>
        /\ sampled = <<>>
        /\ earlier_orders = <<>>
        /\ convert_in = <<>>
        /\ convert_out = <<>>
        /\ response = <<>>
        /\ parsed = <<>>
        /\ call_in = <<>>
        /\ call_out = <<>>
        /\ NoRetries

NextSynth ==
    \/ UseReferenceData
    \/ LlmGenerate
    \/ LlmSample
    \/ ExpandRow
    \/ RepairStep
    \/ RepairDone
    \/ ExpandReturn

SynthSpec == SynthInit /\ [][NextSynth]_vars

(***************************************************************************)
(* SchedSpec: _determine_generation_order alone, on every schema of        *)
(* Schemas; it ends when the order is returned.                            *)
(***************************************************************************)
NextSched ==
    \/ RunCalled
    \/ LoopNext
    \/ VisitDep
    \/ VisitReturn
    \/ SchedReturn

SchedSpec == Init /\ [][NextSched]_vars

(***************************************************************************)
(* Properties of the scheduler.                                            *)
(***************************************************************************)
\* _determine_generation_order has returned generation_order
OrderReturned == pc \in {"run", "gen", "done", "raised"}

\* the names the foreign keys of the table named n give as ref_table
FkTargets(s, n) ==
    UNION {{s[i].foreign_keys[k].ref_table : k \in DOMAIN s[i].foreign_keys} :
             i \in {j \in 1..Len(s) : s[j].name = n}}

RECURSIVE Closure(_, _, _)
\* the names reached from the names S by foreign keys, S included, going on
\* only from the names of Through
Closure(s, S, Through) ==
    LET S2 == S \cup UNION {FkTargets(s, x) : x \in S \cap Through}
    IN  IF S2 = S THEN S ELSE Closure(s, S2, Through)

\* the names reachable from table n through one or more foreign keys
Reachable(s, n) == Closure(s, FkTargets(s, n), DeclaredNames(s))

\* the foreign-key graph has no cycle
Acyclic(s) == \A n \in DeclaredNames(s) : n \notin Reachable(s, n)

DataTableNames(s) == {t.name : t \in {u \in Range(s) : ~IsReferenceTable(u)}}
ReferenceTableNames(s) == {t.name : t \in {u \in Range(s) : IsReferenceTable(u)}}

\* the names reachable from table n through foreign keys along data tables
ReachableAlongData(s, n) == Closure(s, FkTargets(s, n), DataTableNames(s))

Before(a, b) ==
    /\ Pos(generation_order, a) # 0
    /\ Pos(generation_order, b) # 0
    /\ Pos(generation_order, a) < Pos(generation_order, b)

C2_ReferenceTablesFirst ==
    OrderReturned =>
        /\ \A i, j \in 1..Len(schema) :
              (i < j /\ IsReferenceTable(schema[i]) /\ IsReferenceTable(schema[j]))
                  => Before(schema[i].name, schema[j].name)
        /\ \A r \in ReferenceTableNames(schema) :
              /\ Pos(generation_order, r) \in 1..Cardinality(ReferenceTableNames(schema))
              /\ \A d \in DataTableNames(schema) : Before(r, d)

\* an order returned for a schema in which a reference table references a
\* data table that is declared before it
C2_Witness ==
    /\ OrderReturned
    /\ \E i, j \in 1..Len(schema) :
          /\ i < j
          /\ ~IsReferenceTable(schema[i])
          /\ IsReferenceTable(schema[j])
          /\ schema[i].name \in FkTargets(schema, schema[j].name)
    /\ Cardinality(ReferenceTableNames(schema)) >= 2

\* every table of the schema is in the order exactly once
EveryTableOnce ==
    \A n \in DeclaredNames(schema) : Cardinality(Positions(generation_order, n)) = 1

RECURSIVE TodoCount(_)
TodoCount(st) == IF st = <<>> THEN 0 ELSE Cardinality(Head(st).todo) + TodoCount(Tail(st))

\* the names visit can be called with
VisitableNames == DeclaredNames(schema) \cup RefNames

\* what is left for the scheduler to do: the data tables still to loop over,
\* the open frames and their dependencies still to visit, and the names no
\* visit has started on (starting on one opens a frame with its dependencies)
SchedulerWork ==
    (Len(GetDataTables(schema)) + 1 - idx)
    + Len(stack) + TodoCount(stack)
    + (Cardinality(VisitableNames) + 2)
        * Cardinality(VisitableNames \ (visited \cup temp_visited))

ExactOrUnknownTargets(s) ==
    \A n \in DeclaredNames(s) :
        \A d \in FkTargets(s, n) : d \in DeclaredNames(s) \/ ~HasTable(s, d)

\* C4 as claimed: a referenced name that is no table of the schema is
\* dropped from the dependencies: the order holds names of declared tables
\* only, the referencing tables among them.
C4_OnlyDeclaredTablesInOrder ==
    (OrderReturned /\ ExactOrUnknownTargets(schema)) =>
        /\ Range(generation_order) \subseteq DeclaredNames(schema)
        /\ DeclaredNames(schema) \subseteq Range(generation_order)

\* C5 as claimed: a finished run has synthesized every table exactly once,
\* with one output entry per table, in the order of the scheduler.
C5_EveryTableSynthesizedOnce ==
    (pc = "done") =>
        /\ \A n \in DeclaredNames(schema) :
              Cardinality({i \in 1..Len(calls) : calls[i].table = n}) = 1
        /\ Cardinality(DOMAIN output_files) = Len(schema)
        /\ \A i, j \in 1..Len(calls) : i < j => Before(calls[i].key, calls[j].key)


(***************************************************************************)
(* Properties of run.                                                      *)
(***************************************************************************)
\* the synthesis call i sent a request on which llm_call raised
OracleFailedIn(i) == \E k \in 1..Len(calls[i].requests) : calls[i].requests[k].raised

LastCallReturned == pc = "run" /\ calls # <<>> /\ calls[Len(calls)].key = gen_key

LastCall == calls[Len(calls)]

\* the last call took the hybrid path of _generate_synthetic_data
LastCallHybrid ==
    /\ LastCallReturned
    /\ ~(IsReferenceTable(gen_table) /\ HasReferenceRows(gen_table))
    /\ LastCall.row_count > LlmOnlyLimit

\* the primary-key tuples of rows are pairwise distinct
PairwiseDistinctKeys(t, rows) ==
    \A i, j \in 1..Len(rows) : i # j => PkTuple(t, rows[i]) # PkTuple(t, rows[j])

\* C6: for a data table with a primary key, a non-empty seed from the oracle
\* and a row count N above the seed's size, the N rows synthesis returns
\* (the seed followed by the expanded rows) have pairwise distinct
\* primary-key tuples.
C6_PrimaryKeysPairwiseDistinct ==
    (/\ LastCallHybrid
     /\ gen_table.primary_key # <<>>
     /\ sample_rows # <<>>
     /\ LastCall.row_count > Len(sample_rows))
    => PairwiseDistinctKeys(gen_table, LastCall.rows)

\* C7: for a data table with row_count > 50, _generate_synthetic_data
\* returns exactly row_count rows when the oracle's batch holds a row, and
\* no row and no error when the batch is empty.
C7_ExactlyRowCountRows ==
    /\ (pc = "raised" /\ gen_rc > LlmOnlyLimit) => sample_rows = <<>>
    /\ LastCallHybrid =>
          IF sample_rows # <<>>
          THEN Len(LastCall.rows) = LastCall.row_count
          ELSE LastCall.rows = <<>>

MatchesOneRow(row, fk, rows) ==
    \E k \in 1..Len(rows) :
        \A i \in 1..Len(fk.columns) :
            /\ i <= Len(fk.ref_columns)
            /\ fk.ref_columns[i] \in DOMAIN rows[k]
            /\ PkKey(Get(row, fk.columns[i])) = PkKey(rows[k][fk.ref_columns[i]])

\* C9: every row expansion emits holds, for each foreign key whose
\* referenced table has reference data, the referenced columns' values of
\* one row of that data in its local columns.
C9_ExpandedRowsHoldValidForeignKeys ==
    \A n \in 1..Len(additional_rows) :
        \A f \in 1..Len(gen_table.foreign_keys) :
            LET fk == gen_table.foreign_keys[f]
            IN  (/\ HasTable(schema, fk.ref_table)
                 /\ GetTable(schema, fk.ref_table).reference_data.rows # <<>>)
                => MatchesOneRow(additional_rows[n], fk,
                                 GetTable(schema, fk.ref_table).reference_data.rows)

(***************************************************************************)
(* Properties of the oracle call's failure handling.                       *)
(***************************************************************************)
\* Agent.handle_llm_error: retry_count = 3
RetryCount == 3

\* C11: when the oracle call made for a data table raises, the call is
\* issued again under the retry policy, up to its attempt count, and the
\* empty batch is returned only after all attempts failed: a call that ends
\* with a failed request has sent 1 + RetryCount requests, all failed.
C11_FailedOracleCallRetried ==
    \A i \in 1..Len(calls) :
        OracleFailedIn(i) =>
            /\ Len(calls[i].requests) = 1 + RetryCount
            /\ \A k \in 1..Len(calls[i].requests) : calls[i].requests[k].raised

(***************************************************************************)
(* Properties of synthesis on an inconsistent schema.                      *)
(***************************************************************************)
\* the primary key of t names a column that t does not have
MissingKeyColumn(t) ==
    \E i \in 1..Len(t.primary_key) : ~HasColumn(t, t.primary_key[i])

\* C12: when the primary key of a table names a column the table does not
\* have, the synthesis call for the table fails with an error: it does not
\* return rows, and it does not go on running in the repair loop (a pass of
\* the loop that leaves the row as it was is followed by the same pass).
C12_MissingKeyColumnRaises ==
    /\ [](MissingKeyColumn(gen_table) => ~(LastCallReturned /\ LastCall.rows # <<>>))
    /\ [][(MissingKeyColumn(gen_table) /\ pc = "repair" /\ pc' = "repair")
             => new_row' # new_row]_vars

(***************************************************************************)
(* CountSpec: run on two-table schemas whose second table has one to four  *)
(* columns and foreign keys over them, with the row_counts argument either *)
(* None or a dict over some of the table names.                            *)
(***************************************************************************)
CountColumnNames == <<"id", "a", "b", "c">>

CountColumns(n) == [i \in 1..n |-> Column(CountColumnNames[i], "INTEGER", 0)]

\* the column lists of the foreign keys of the second table
FkShapes ==
    {<<>>, <<(<<"id">>)>>, <<(<<"id", "a">>)>>, <<(<<"id">>), (<<"id">>)>>,
     <<(<<"id">>), (<<"a">>)>>}

FksOver(shape) ==
    [k \in 1..Len(shape) |->
        ForeignKey(shape[k], "Status", [i \in 1..Len(shape[k]) |-> "id"])]

\* the shapes whose columns are among the first n columns
ShapesFor(n) ==
    {sh \in FkShapes : \A k \in 1..Len(sh) : \A i \in 1..Len(sh[k]) :
                          \E j \in 1..n : CountColumnNames[j] = sh[k][i]}

CountSchemas ==
    UNION {{<<Table("Status", <<IdColumn>>, pk, <<>>, r),
              Table("Orders", CountColumns(n), <<"id">>, FksOver(shape), r2)>> :
               pk \in {<<>>, <<"id">>}, r \in {NoReferenceData, SomeReferenceData},
               shape \in ShapesFor(n), r2 \in {NoReferenceData, SomeReferenceData}} :
            n \in 1..Len(CountColumnNames)}

\* the count a caller names for a table
GivenCount == 7

\* the row_counts arguments: None, and the dicts over subsets of the names
GivenRowCounts(s) ==
    {NoRowCounts} \cup {SomeRowCounts([n \in D |-> GivenCount]) : D \in SUBSET DeclaredNames(s)}

RunCalledWithCounts ==
    pc = "idle" /\ \E s \in CountSchemas : \E given \in GivenRowCounts(s) : Run(s, given)

NextCount ==
    \/ RunCalledWithCounts
    \/ LoopNext
    \/ VisitDep
    \/ VisitReturn
    \/ SchedReturn
    \/ RunStep
    \/ UseReferenceData
    \/ LlmGenerate
    \/ RunDone

CountSpec == Init /\ [][NextCount]_vars

\* run has taken its row counts
RowCountsTaken == pc # "idle"

\* the names of the columns that take part in some foreign key of the table
FkColumnNames(t) == UNION {Range(t.foreign_keys[k].columns) : k \in DOMAIN t.foreign_keys}

\* the last table of the schema that carries the name
LastNamed(s, n) ==
    s[CHOOSE j \in 1..Len(s) : s[j].name = n /\ \A k \in 1..Len(s) : s[k].name = n => k <= j]

\* C13: without a row_counts argument every table of the schema gets the
\* number of its reference rows if it is a reference table with rows, 5 if it
\* is a reference table without rows, 25 if it is a data table of whose
\* columns at least half take part in a foreign key, and 50 otherwise
C13_DefaultRowCounts ==
    (RowCountsTaken /\ ~given_row_counts.present) =>
        /\ DOMAIN row_counts = DeclaredNames(schema)
        /\ \A n \in DeclaredNames(schema) :
              LET t == LastNamed(schema, n)
              IN  row_counts[n] =
                     IF IsReferenceTable(t) /\ HasReferenceRows(t)
                     THEN Len(t.reference_data.rows)
                     ELSE IF IsReferenceTable(t) THEN RefTableDefaultRows
                     ELSE IF 2 * Cardinality(FkColumnNames(t)) >= Len(t.columns)
                          THEN JunctionDefaultRows
                          ELSE DataTableDefaultRows

\* the caller named a row count for the table
CallerGaveCount(name) == given_row_counts.present /\ name \in DOMAIN given_row_counts.counts

\* C14: every table the caller gave no row count for is synthesized with the
\* count _default_row_counts assigns to it, whether row_counts was None or a
\* dict that omits the table
C14_OmittedTablesGetDefault ==
    \A i \in 1..Len(calls) :
        ~CallerGaveCount(calls[i].key) =>
            calls[i].row_count = DefaultRowCounts(schema)[calls[i].table]

(***************************************************************************)
(* SeedSpec: agents are constructed with a seed or without one, and each   *)
(* expansion draws its foreign-key indices with random.choices from the    *)
(* generator of the module random, which every agent of the process        *)
(* shares.  The generator is a counter modulo GeneratorModulus: seeding    *)
(* sets it, every draw advances it and reads a number of [0, 1) off it.    *)
(***************************************************************************)
GeneratorModulus == 10

GeneratorStep == 7

GeneratorStates == 0..(GeneratorModulus - 1)

SeedValues == {1, 2}

\* kwargs.get("seed"): None or an integer
NoSeed == [present |-> FALSE, value |-> 0]

SomeSeed(v) == [present |-> TRUE, value |-> v]

Agents == {"a", "b"}

\* the expansions looked at, and the foreign-key draws of each
MaxSampled == 2

SampleCount == 2

\* random.seed(seed)
Seeded(v) == v % GeneratorModulus

Advance(g) == (g + GeneratorStep) % GeneratorModulus

\* random.choices(indices, weights=weight_values, k=1)[0] over the weights
\* 0.7 and 0.3: index 0 when the number drawn is below 0.7
WeightedIndex(g) == IF 10 * g < 7 * GeneratorModulus THEN 0 ELSE 1

\* __init__: if self.seed is not None: random.seed(self.seed)
Construct(a, seed) ==
    /\ a \notin DOMAIN agent_seeds
    /\ agent_seeds' = [x \in DOMAIN agent_seeds \cup {a} |->
                          IF x = a THEN seed ELSE agent_seeds[x]]
    /\ generator' = IF seed.present THEN Seeded(seed.value) ELSE generator
    /\ UNCHANGED <<pc, schema, given_row_counts, row_counts, oracle, schedVars,
                   runVars, genVars, llm_calls, expVars, sampled, earlier_orders,
                   convVars>>

Constructed == \E a \in Agents : \E seed \in {NoSeed} \cup {SomeSeed(v) : v \in SeedValues} :
                  Construct(a, seed)

ExpansionOpen == sampled # <<>> /\ ~sampled[Len(sampled)].done

\* an agent comes to the loop of _algorithmic_generate_data
ExpansionStarts ==
    /\ ~ExpansionOpen
    /\ Len(sampled) < MaxSampled
    /\ \E a \in DOMAIN agent_seeds :
          sampled' = Append(sampled, [agent |-> a, seed |-> agent_seeds[a],
                                      indices |-> <<>>, done |-> FALSE])
    /\ UNCHANGED <<pc, schema, given_row_counts, row_counts, oracle, schedVars,
                   runVars, genVars, llm_calls, expVars, generator, agent_seeds,
                   earlier_orders,
                   convVars>>

\* one row's weighted draw of a reference row
SampleIndex ==
    /\ ExpansionOpen
    /\ Len(sampled[Len(sampled)].indices) < SampleCount
    /\ generator' = Advance(generator)
    /\ sampled' = [sampled EXCEPT ![Len(sampled)].indices =
                                     Append(@, WeightedIndex(generator'))]
    /\ UNCHANGED <<pc, schema, given_row_counts, row_counts, oracle, schedVars,
                   runVars, genVars, llm_calls, expVars, agent_seeds, earlier_orders,
                   convVars>>

\* return additional_rows
ExpansionEnds ==
    /\ ExpansionOpen
    /\ Len(sampled[Len(sampled)].indices) = SampleCount
    /\ sampled' = [sampled EXCEPT ![Len(sampled)].done = TRUE]
    /\ UNCHANGED <<pc, schema, given_row_counts, row_counts, oracle, schedVars,
                   runVars, genVars, llm_calls, expVars, generator, agent_seeds,
                   earlier_orders,
                   convVars>>

\* the generator starts from the state the import of random left
SeedInit ==
    /\ InitRun
    /\ generator \in GeneratorStates
    /\ agent_seeds = <<>>
    /\ sampled = <<>>
    /\ earlier_orders = <<>>
    /\ convert_in = <<>>
    /\ convert_out = <<>>
    /\ response = <<>>
    /\ parsed = <<>>
    /\ call_in = <<>>
    /\ call_out = <<>>
    /\ NoRetries

NextSeed ==
    \/ Constructed
    \/ ExpansionStarts
    \/ SampleIndex
    \/ ExpansionEnds

SeedSpec == SeedInit /\ [][NextSeed]_vars

\* C15: two runs whose agents have the same seed sample the same sequence of
\* reference-row indices: the draws of a run depend on its seed alone
C15_SameSeedSameDraws ==
    \A i \in 1..Len(sampled) : \A j \in 1..Len(sampled) :
        (/\ sampled[i].done /\ sampled[j].done
         /\ sampled[i].seed.present
         /\ sampled[i].seed = sampled[j].seed)
            => sampled[i].indices = sampled[j].indices

(***************************************************************************)
(* RepeatSpec: _determine_generation_order is invoked on the schema a      *)
(* second time, in a process of its own, whose hash seed decides afresh    *)
(* the order in which the sets of dependencies are iterated.               *)
(***************************************************************************)
MaxInvocations == 2

\* the list returned is kept and the scheduler starts again on the schema
ScheduleAgain ==
    /\ pc = "run"
    /\ run_i = 1
    /\ Len(earlier_orders) + 1 < MaxInvocations
    /\ earlier_orders' = Append(earlier_orders, generation_order)
    /\ pc' = "sched"
    /\ visited' = Range(NamesOf(GetReferenceTables(schema)))
    /\ generation_order' = NamesOf(GetReferenceTables(schema))
    /\ temp_visited' = {}
    /\ stack' = <<>>
    /\ idx' = 1
    /\ UNCHANGED <<schema, given_row_counts, row_counts, oracle, seedVars, convVars,
                   runVars, genVars, llm_calls, expVars>>

NextRepeat ==
    \/ RunCalled
    \/ LoopNext
    \/ VisitDep
    \/ VisitReturn
    \/ SchedReturn
    \/ ScheduleAgain

RepeatSpec == Init /\ [][NextRepeat]_vars

\* C16: the order is a function of the schema alone: on a schema whose foreign
\* keys name declared tables, an invocation returns the list every earlier
\* invocation on the same schema returned
C16_OrderIsFunctionOfSchema ==
    (OrderReturned /\ \A n \in DeclaredNames(schema) :
                         FkTargets(schema, n) \subseteq DeclaredNames(schema)) =>
        \A k \in 1..Len(earlier_orders) : generation_order = earlier_orders[k]

(***************************************************************************)
(* ConvertSpec: _convert_data_types on the data of one call, and again on  *)
(* what it returned.  The table has the one column id, of a numeric, a     *)
(* boolean, a string or a date type; the rows hold values of every JSON    *)
(* scalar type under id, under ID and under a key that names no column.    *)
(***************************************************************************)
MaxConverts == 2

ConvertKinds == {"INTEGER", "FLOAT", "BIT", "VARCHAR", "DATE"}

ConvertTable(kind) ==
    Table("Orders", <<Column("id", kind, 0)>>, <<"id">>, <<>>, NoReferenceData)

ConvertValues ==
    {NoneV, IntV(0), IntV(1), IntV(7), FloatV(100), FloatV(150), BoolV(TRUE), BoolV(FALSE),
     StrV(<<>>), StrV(<<"1">>), StrV(<<"1", "2">>), StrV(<<"1", ".", "5">>),
     StrV(<<"T", "r", "u", "e">>), StrV(<<"Y", "E", "S">>), StrV(<<"f">>),
     StrV(<<"N", "o">>), StrV(<<"x">>)}

ConvertRows ==
    UNION {[{k} -> ConvertValues] : k \in {"id", "ID", "sku"}}
        \cup [{"id", "sku"} -> ConvertValues]

ConvertData ==
    {<<>>} \cup {<<r>> : r \in ConvertRows}
        \cup {<<[id |-> v], [id |-> w]>> : v, w \in {NoneV, FloatV(150), StrV(<<"N", "o">>)}}

ConvertInit ==
    /\ InitRun
    /\ generator = 0
    /\ agent_seeds = <<>>
    /\ sampled = <<>>
    /\ earlier_orders = <<>>
    /\ \E kind \in ConvertKinds : \E data \in ConvertData :
          convert_in = [table |-> ConvertTable(kind), data |-> data]
    /\ convert_out = <<>>
    /\ response = <<>>
    /\ parsed = <<>>
    /\ call_in = <<>>
    /\ call_out = <<>>
    /\ NoRetries

\* _convert_data_types(data, table), on the data given and then on its result
Convert ==
    /\ Len(convert_out) < MaxConverts
    /\ convert_out' =
          Append(convert_out,
                 ConvertDataTypes(convert_in.table,
                                  IF convert_out = <<>> THEN convert_in.data
                                  ELSE convert_out[Len(convert_out)]))
    /\ UNCHANGED <<pc, schema, given_row_counts, row_counts, oracle, schedVars,
                   runVars, genVars, llm_calls, expVars, seedVars, earlier_orders,
                   convert_in, response, parsed, call_in, call_out, retryVars>>

ConvertSpec == ConvertInit /\ [][Convert]_vars

\* C17: type coercion is idempotent: _convert_data_types applied to its own
\* output returns that output
C17_ConvertIdempotent ==
    Len(convert_out) >= 2 => convert_out[2] = convert_out[1]

\* the second conversion has returned for data the first one changed
C17_Witness ==
    /\ Len(convert_out) >= 2
    /\ convert_out[1] # convert_in.data
    /\ convert_out[2] = convert_out[1]

\* the value the claim gives for a value under a key of a row
CoercedValue(t, key, value) ==
    IF value = NoneV THEN NoneV
    ELSE IF ~\E i \in 1..Len(t.columns) : Lower(t.columns[i].name) = Lower(key) THEN value
    ELSE LET kind == t.columns[CHOOSE i \in 1..Len(t.columns) :
                                  Lower(t.columns[i].name) = Lower(key)].kind
         IN  IF kind = "BIT"
             THEN IF value.py = "bool" THEN value
                  ELSE IF LowerChars(PyStr(value)) \in
                            {<<"t", "r", "u", "e">>, <<"t">>, <<"y", "e", "s">>, <<"y">>, <<"1">>}
                       THEN BoolV(TRUE)
                  ELSE IF LowerChars(PyStr(value)) \in
                            {<<"f", "a", "l", "s", "e">>, <<"f">>, <<"n", "o">>, <<"n">>, <<"0">>}
                       THEN BoolV(FALSE)
                  ELSE value
             ELSE IF kind \in {"INTEGER", "BIGINT", "SMALLINT", "TINYINT"}
                  THEN IF PyInt(value).ok THEN NumV(PyInt(value).n, "int") ELSE value
             ELSE IF kind \in {"DECIMAL", "NUMERIC", "FLOAT", "REAL", "MONEY"}
                  THEN IF PyFloat(value).ok THEN NumV(PyFloat(value).n, "float") ELSE value
             ELSE StrV(PyStr(value))

\* C18: _convert_data_types returns a row for every row, with the same keys:
\* null stays null, a value under a key that names no column is unchanged, a
\* boolean column keeps a bool, maps the true and false tokens whatever their
\* case and leaves any other value, a numeric column holds the int or float
\* conversion or the value when that fails, any other column holds str(value)
C18_ConvertContract ==
    convert_out # <<>> =>
        /\ Len(convert_out[1]) = Len(convert_in.data)
        /\ \A i \in 1..Len(convert_in.data) :
              /\ DOMAIN convert_out[1][i] = DOMAIN convert_in.data[i]
              /\ \A k \in DOMAIN convert_in.data[i] :
                    convert_out[1][i][k] =
                        CoercedValue(convert_in.table, k, convert_in.data[i][k])

\* a call has returned a row that holds a coerced token under the boolean
\* column and an untouched value under a key that names no column
C18_Witness ==
    /\ convert_out # <<>>
    /\ convert_in.table.columns[1].kind = "BIT"
    /\ \E i \in 1..Len(convert_in.data) :
          /\ DOMAIN convert_in.data[i] = {"id", "sku"}
          /\ convert_in.data[i]["id"] = StrV(<<"Y", "E", "S">>)
          /\ convert_out[1][i]["id"] = BoolV(TRUE)
          /\ convert_out[1][i]["sku"] = StrV(<<"1">>)

\* C19: every row of a data table that is handed to the writer is a fixed
\* point of _convert_data_types for its table, the rows of the oracle and the
\* rows of expansion with their foreign-key values alike
C19_WrittenRowsAreCoerced ==
    \A i \in 1..Len(calls) :
        LET t == GetTable(schema, calls[i].key)
        IN  ~IsReferenceTable(t) =>
                \A k \in 1..Len(calls[i].rows) :
                    \A c \in DOMAIN calls[i].rows[k] :
                        ConvertValue(t, c, calls[i].rows[k][c]) = calls[i].rows[k][c]

(***************************************************************************)
(* _parse_generated_data.  A response is a sequence of fragments of text,  *)
(* joined by line breaks: prose, a code fence, and arrays written in one   *)
(* piece.  The regular expressions and json.loads are given on them.       *)
(***************************************************************************)
\* Here are the rows
Prose == "prose"

\* three backticks
Fence == "fence"

\* [{"id": "1"}], a JSON array of one object
ObjectArray == "object array"

\* [{id: '2'}], an unquoted key and a single-quoted str: JSON after the
\* repairs only
LooseArray == "loose array"

\* [{"id" 3}], a colon is missing: no JSON, before the repairs or after
BrokenArray == "broken array"

\* [4] and [], JSON arrays that hold no object
NumberArray == "number array"

EmptyArray == "empty array"

\* [{"id": "5'"}], a JSON array of one object whose str holds an apostrophe
QuoteArray == "quote array"

\* [{"id": "2"}], LooseArray after replace("'", '"') and
\* re.sub(r'(\w+):', r'"\1":', ...)
RepairedArray == "repaired array"

\* [{"id": "5""}], QuoteArray after them: no JSON any more
DamagedArray == "damaged array"

Fragments ==
    {Prose, Fence, ObjectArray, LooseArray, QuoteArray, BrokenArray, NumberArray,
     EmptyArray}

\* the fragments that hold a '[' and a ']'
Bracketed ==
    {ObjectArray, LooseArray, QuoteArray, BrokenArray, NumberArray, EmptyArray,
     RepairedArray, DamagedArray}

\* the fragments that start with "[{" and end with "}]"
Braced == {ObjectArray, LooseArray, QuoteArray, BrokenArray, RepairedArray, DamagedArray}

\* re.search(r'```(?:json)?\s*(\[\s*\{.*?\}\s*\])\s*```', response, re.DOTALL):
\* from the first fence that a braced fragment follows, up to the first
\* braced fragment from there on that a fence follows
FencedStarts(text) ==
    {i \in 1..Len(text) :
        /\ text[i] = Fence
        /\ i + 1 <= Len(text) /\ text[i + 1] \in Braced
        /\ \E j \in (i + 1)..(Len(text) - 1) : text[j] \in Braced /\ text[j + 1] = Fence}

FencedCandidate(text) ==
    LET i == CHOOSE x \in FencedStarts(text) : \A y \in FencedStarts(text) : x <= y
        j == CHOOSE x \in (i + 1)..(Len(text) - 1) :
                /\ text[x] \in Braced /\ text[x + 1] = Fence
                /\ \A y \in (i + 1)..(x - 1) : ~(text[y] \in Braced /\ text[y + 1] = Fence)
    IN  SubSeq(text, i + 1, j)

BracketedAt(text) == {i \in 1..Len(text) : text[i] \in Bracketed}

\* from the first '[' to the last ']'
BracketSlice(text) ==
    SubSeq(text, CHOOSE i \in BracketedAt(text) : \A k \in BracketedAt(text) : i <= k,
                 CHOOSE i \in BracketedAt(text) : \A k \in BracketedAt(text) : k <= i)

\* json.loads: the value of a text that is one JSON array, an exception else
JsonLoads(text) ==
    IF Len(text) # 1 THEN [ok |-> FALSE, objects |-> FALSE, rows |-> <<>>]
    ELSE CASE text[1] = ObjectArray ->
                 [ok |-> TRUE, objects |-> TRUE, rows |-> <<[id |-> StrV(<<"1">>)]>>]
           [] text[1] = RepairedArray ->
                 [ok |-> TRUE, objects |-> TRUE, rows |-> <<[id |-> StrV(<<"2">>)]>>]
           [] text[1] = QuoteArray ->
                 [ok |-> TRUE, objects |-> TRUE, rows |-> <<[id |-> StrV(<<"5", "'">>)]>>]
           [] text[1] = NumberArray ->
                 [ok |-> TRUE, objects |-> FALSE, rows |-> <<IntV(4)>>]
           [] text[1] = EmptyArray ->
                 [ok |-> TRUE, objects |-> TRUE, rows |-> <<>>]
           [] OTHER -> [ok |-> FALSE, objects |-> FALSE, rows |-> <<>>]

\* data = json.loads(json_str); return self._convert_data_types(data, table):
\* row.items() raises for an element that is no object
LoadAndConvert(t, text) ==
    LET data == JsonLoads(text)
    IN  IF data.ok /\ data.objects
        THEN [ok |-> TRUE, rows |-> ConvertDataTypes(t, data.rows)]
        ELSE [ok |-> FALSE, rows |-> <<>>]

\* the body of the outer try
ParseStrict(t, text) ==
    IF FencedStarts(text) # {} THEN LoadAndConvert(t, FencedCandidate(text))
    ELSE IF text # <<>> /\ text[1] \in Bracketed THEN LoadAndConvert(t, text)
    ELSE IF BracketedAt(text) # {} THEN LoadAndConvert(t, BracketSlice(text))
    ELSE [ok |-> FALSE, rows |-> <<>>]

Repaired(text) ==
    [i \in 1..Len(text) |->
        CASE text[i] = LooseArray -> RepairedArray
          [] text[i] = QuoteArray -> DamagedArray
          [] OTHER -> text[i]]

\* the handler of the outer try: the lenient pass, and [] for any exception
ParseLenient(t, text) ==
    IF BracketedAt(text) # {}
    THEN LET r == LoadAndConvert(t, Repaired(BracketSlice(text)))
         IN  [raised |-> FALSE, rows |-> IF r.ok THEN r.rows ELSE <<>>]
    ELSE [raised |-> FALSE, rows |-> <<>>]

ParseGeneratedData(t, text) ==
    LET r == ParseStrict(t, text)
    IN  IF r.ok THEN [raised |-> FALSE, rows |-> r.rows] ELSE ParseLenient(t, text)

(***************************************************************************)
(* ParseSpec: _parse_generated_data on every response of up to             *)
(* MaxFragments fragments, for the table Orders(id INTEGER).               *)
(***************************************************************************)
MaxFragments == 4

RECURSIVE Texts(_)
Texts(n) ==
    IF n = 0 THEN {<<>>}
    ELSE Texts(n - 1) \cup {Append(x, f) : x \in Texts(n - 1), f \in Fragments}

ParseInit ==
    /\ InitRun
    /\ generator = 0
    /\ agent_seeds = <<>>
    /\ sampled = <<>>
    /\ earlier_orders = <<>>
    /\ convert_in = <<>>
    /\ convert_out = <<>>
    /\ response \in Texts(MaxFragments)
    /\ parsed = <<>>
    /\ call_in = <<>>
    /\ call_out = <<>>
    /\ NoRetries

\* _parse_generated_data(response, table)
Parse ==
    /\ parsed = <<>>
    /\ parsed' = <<ParseGeneratedData(OrdersById, response)>>
    /\ UNCHANGED <<pc, schema, given_row_counts, row_counts, oracle, schedVars,
                   runVars, genVars, llm_calls, expVars, seedVars, earlier_orders,
                   convert_in, convert_out, response, call_in, call_out, retryVars>>

ParseSpec == ParseInit /\ [][Parse]_vars

\* the rows a text yields when it is a JSON array of objects
YieldsRows(text) ==
    /\ Len(text) = 1
    /\ text[1] \in {ObjectArray, QuoteArray, RepairedArray, EmptyArray}

RowsYielded(text) ==
    CASE text[1] = ObjectArray -> <<[id |-> IntV(1)]>>
      [] text[1] = RepairedArray -> <<[id |-> IntV(2)]>>
      [] text[1] = QuoteArray -> <<[id |-> StrV(<<"5", "'">>)]>>
      [] OTHER -> <<>>

\* C20: _parse_generated_data never raises: it returns the rows of the first
\* of the fenced-block candidate, the slice from the first '[' to the last
\* ']' and the repaired slice that is a JSON array of objects, and the empty
\* list when none of them is
C20_ParseReturnsFirstArray ==
    parsed # <<>> =>
        /\ ~parsed[1].raised
        /\ parsed[1].rows =
              IF FencedStarts(response) # {} /\ YieldsRows(FencedCandidate(response))
              THEN RowsYielded(FencedCandidate(response))
              ELSE IF BracketedAt(response) # {} /\ YieldsRows(BracketSlice(response))
              THEN RowsYielded(BracketSlice(response))
              ELSE IF BracketedAt(response) # {}
                      /\ YieldsRows(Repaired(BracketSlice(response)))
              THEN RowsYielded(Repaired(BracketSlice(response)))
              ELSE <<>>

(***************************************************************************)
(* Functions of models/ir.py and of the reference-data attachment, each    *)
(* applied to an argument drawn at the start.                              *)
(***************************************************************************)
\* the start of a specification that applies one function to one of inputs
CallInit(inputs) ==
    /\ InitRun
    /\ generator = 0
    /\ agent_seeds = <<>>
    /\ sampled = <<>>
    /\ earlier_orders = <<>>
    /\ convert_in = <<>>
    /\ convert_out = <<>>
    /\ response = <<>>
    /\ parsed = <<>>
    /\ call_in \in inputs
    /\ call_out = <<>>
    /\ NoRetries

\* the function returns result
Returns(result) ==
    /\ call_out = <<>>
    /\ call_out' = <<result>>
    /\ UNCHANGED <<pc, schema, given_row_counts, row_counts, oracle, schedVars,
                   runVars, genVars, llm_calls, expVars, seedVars, earlier_orders,
                   convert_in, convert_out, response, parsed, call_in, retryVars>>

(***************************************************************************)
(* DistSpec: ReferenceData.get_weighted_distribution on up to MaxRefRows   *)
(* rows, each without a weight or with one of 0, 0.3, 0.7 and 1.  A weight *)
(* returned is a fraction num/den.                                         *)
(***************************************************************************)
MaxRefRows == 3

RowWeights == {IntV(0), FloatV(30), FloatV(70), IntV(1)}

WeightRows(i) == {[id |-> IntV(i)]} \cup {[id |-> IntV(i), weight |-> w] : w \in RowWeights}

RECURSIVE RowLists(_)
RowLists(n) ==
    IF n = 0 THEN {<<>>}
    ELSE RowLists(n - 1) \cup
         {Append(rows, r) : rows \in {x \in RowLists(n - 1) : Len(x) = n - 1},
                            r \in WeightRows(n)}

\* ReferenceData.get_weighted_distribution: the weights divided by their
\* total when the total is positive, as they are when it is not, and 1/N
\* when no row holds a weight
GetWeightedDistribution(refData) ==
    LET raw   == WeightedDistribution(refData)
        total == SumSeq(raw)
        n     == Len(refData.rows)
    IN  IF \E i \in 1..n : "weight" \in DOMAIN refData.rows[i]
        THEN IF total > 0
             THEN [i \in 1..n |-> [num |-> raw[i], den |-> total]]
             ELSE [i \in 1..n |-> [num |-> raw[i], den |-> 100]]
        ELSE [i \in 1..n |-> [num |-> 1, den |-> n]]

GetWeightedDistributionCalled ==
    Returns(GetWeightedDistribution([present |-> TRUE, rows |-> call_in,
                                     distribution_strategy |-> "weighted_random"]))

DistInit == CallInit(RowLists(MaxRefRows))

DistSpec == DistInit /\ [][GetWeightedDistributionCalled]_vars

\* the sum of fractions of one denominator is 1
SumsToOne(d) == SumSeq([i \in 1..Len(d) |-> d[i].num]) = d[1].den /\
                \A i \in 1..Len(d) : d[i].den = d[1].den

\* C21: get_weighted_distribution maps no rows to the empty mapping and rows
\* with non-negative weights to a mapping over every index whose values sum
\* to 1; when no row holds a weight every index gets 1/N
C21_DistributionSumsToOne ==
    call_out # <<>> =>
        LET d == call_out[1]
            n == Len(call_in)
        IN  /\ n = 0 => d = <<>>
            /\ n > 0 => /\ DOMAIN d = 1..n
                        /\ SumsToOne(d)
            /\ (\A i \in 1..n : "weight" \notin DOMAIN call_in[i]) =>
                   \A i \in 1..n : d[i].num * n = d[i].den

(***************************************************************************)
(* RefTableSpec: Table.is_reference_table, Schema.get_reference_tables and *)
(* Schema.get_data_tables queried twice on one schema of two tables.       *)
(***************************************************************************)
\* the function is called once more on the same argument
ReturnsAgain(result) ==
    /\ Len(call_out) = 1
    /\ call_out' = Append(call_out, result)
    /\ UNCHANGED <<pc, schema, given_row_counts, row_counts, oracle, schedVars,
                   runVars, genVars, llm_calls, expVars, seedVars, earlier_orders,
                   convert_in, convert_out, response, parsed, call_in, retryVars>>

QueryNames == {"Users", "Status", "OrderTypes", "ZIPCODES", "Lookup", "Stats"}

QueryColumnNames == <<"id", "a", "b", "c", "d", "e">>

QueryColumns(n) == [i \in 1..n |-> Column(QueryColumnNames[i], "INTEGER", 0)]

\* ReferenceData(rows=[])
EmptyReferenceData == [present |-> TRUE, rows |-> <<>>, distribution_strategy |-> "None"]

QueryTables ==
    {Table(name, QueryColumns(n), pk, <<>>, refData) :
        name \in QueryNames, n \in {4, 5, 6}, pk \in {<<>>, <<"id">>},
        refData \in {NoReferenceData, EmptyReferenceData, SomeReferenceData}}

QuerySchemas == {<<a, b>> : a \in QueryTables, b \in QueryTables}

\* what the three queries answer on schema s
QueryReferenceTables(s) ==
    [is_reference_table |-> [i \in 1..Len(s) |-> IsReferenceTable(s[i])],
     reference_tables |-> GetReferenceTables(s),
     data_tables |-> GetDataTables(s)]

Queried == Returns(QueryReferenceTables(call_in))

QueriedAgain == ReturnsAgain(QueryReferenceTables(call_in))

RefTableInit == CallInit(QuerySchemas)

NextRefTable == Queried \/ QueriedAgain

RefTableSpec == RefTableInit /\ [][NextRefTable]_vars

\* the name of t contains one of the five indicators, whatever the case
NameSuggestsReference(t) ==
    \E indicator \in {<<"l", "o", "o", "k", "u", "p">>,
                      <<"r", "e", "f", "e", "r", "e", "n", "c", "e">>,
                      <<"t", "y", "p", "e">>,
                      <<"s", "t", "a", "t", "u", "s">>,
                      <<"c", "o", "d", "e">>} :
        Contains(LowerName(Spelling(t.name)), indicator)

\* the rule of the claim for table t
ReferenceByRule(t) ==
    \/ t.reference_data.present /\ t.reference_data.rows # <<>>
    \/ /\ NameSuggestsReference(t)
       /\ Len(t.columns) <= 5
       /\ t.primary_key # <<>>

\* C22: is_reference_table is true exactly for a table with non-empty
\* reference data, or with an indicator in its name, at most 5 columns and a
\* primary key; the reference tables and the data tables of a schema are
\* the tables with and without the property, each table in exactly one of
\* the two lists; a repeated query gives the same answers.
C22_ReferenceTableRule ==
    \A k \in 1..Len(call_out) :
        LET q == call_out[k] IN
        /\ \A i \in 1..Len(call_in) :
              q.is_reference_table[i] = ReferenceByRule(call_in[i])
        /\ Len(q.reference_tables) + Len(q.data_tables) = Len(call_in)
        /\ \A i \in 1..Len(call_in) :
              /\ call_in[i] \in Range(q.reference_tables) <=> ReferenceByRule(call_in[i])
              /\ call_in[i] \in Range(q.data_tables) <=> ~ReferenceByRule(call_in[i])
        /\ q = call_out[1]

\* both queries were made on a schema whose first table is a reference table
\* by its name alone and whose second has an indicator in its name but six
\* columns
C22_Witness ==
    /\ Len(call_out) = 2
    /\ call_in[1].name = "ZIPCODES"
    /\ call_in[1].reference_data = EmptyReferenceData
    /\ Len(call_in[1].columns) = 5
    /\ call_in[2].name = "OrderTypes"
    /\ Len(call_in[2].columns) = 6
    /\ call_in[2].primary_key # <<>>
    /\ ~call_in[2].reference_data.present
    /\ NamesOf(call_out[2].reference_tables) = <<"ZIPCODES">>
    /\ NamesOf(call_out[2].data_tables) = <<"OrderTypes">>

(***************************************************************************)
(* ChainSpec: one whole run over two data tables, Orders holding a foreign *)
(* key to Users.  Users is asked with LlmOnlyLimit rows and Orders with    *)
(* one row more, so that Users is answered by the oracle and Orders is     *)
(* sampled and expanded.                                                   *)
(***************************************************************************)
UsersById == Table("Users", <<IdColumn>>, <<"id">>, <<>>, NoReferenceData)

UserIdColumn == Column("user_id", "INTEGER", 0)

UsersFk == ForeignKey(<<"user_id">>, "Users", <<"id">>)

OrdersOfUsers ==
    Table("Orders", <<IdColumn, UserIdColumn>>, <<"id">>, <<UsersFk>>, NoReferenceData)

ChainSchema == <<OrdersOfUsers, UsersById>>

\* the rows the oracle answers for Users: ids 11, 12, ...
UsersSeed(k) == [i \in 1..k |-> [id |-> IntV(10 + i)]]

\* the rows the oracle answers for Orders, each of a user the oracle named
OrdersSeed(k) == [i \in 1..k |-> [id |-> IntV(i), user_id |-> IntV(11 + (i % 2))]]

ChainBatches == {UsersSeed(LlmOnlyLimit), OrdersSeed(LlmOnlyLimit)}

ChainRowCounts ==
    SomeRowCounts([n \in {"Users", "Orders"} |->
                      IF n = "Users" THEN LlmOnlyLimit ELSE HybridCount])

ChainRunCalled == pc = "idle" /\ Run(ChainSchema, ChainRowCounts)

ChainInit ==
    /\ pc = "idle"
    /\ schema = <<>>
    /\ given_row_counts = NoRowCounts
    /\ row_counts = <<>>
    /\ oracle = ChainBatches
    /\ visited = {}
    /\ temp_visited = {}
    /\ generation_order = <<>>
    /\ stack = <<>>
    /\ idx = 1
    /\ run_i = 1
    /\ calls = <<>>
    /\ output_files = <<>>
    /\ gen_key = ""
    /\ gen_table = Table("", <<>>, <<>>, <<>>, NoReferenceData)
    /\ gen_rc = 0
    /\ llm_calls = <<>>
    /\ gen_requests = <<>>
    /\ sample_rows = <<>>
    /\ additional_rows = <<>>
    /\ existing_pk_values = {}
    /\ new_row = <<>>
    /\ suffix = 1
    /\ remaining = 0
    /\ generator = 0
    /\ agent_seeds = <<>>
    /\ sampled = <<>>
    /\ earlier_orders = <<>>
    /\ convert_in = <<>>
    /\ convert_out = <<>>
    /\ response = <<>>
    /\ parsed = <<>>
    /\ call_in = <<>>
    /\ call_out = <<>>
    /\ NoRetries

NextChain ==
    \/ ChainRunCalled
    \/ LoopNext
    \/ VisitDep
    \/ VisitReturn
    \/ SchedReturn
    \/ RunStep
    \/ LlmGenerate
    \/ LlmSample
    \/ ExpandRow
    \/ RepairStep
    \/ RepairDone
    \/ ExpandReturn
    \/ RunDone

ChainSpec == ChainInit /\ [][NextChain]_vars

\* the rows the run has synthesized for the table named name
SynthesizedFor(name) ==
    IF \E k \in 1..Len(calls) : calls[k].table = name
    THEN calls[CHOOSE k \in 1..Len(calls) : calls[k].table = name].rows
    ELSE <<>>

\* row holds, under the columns of fk, the values some synthesized row of
\* the referenced table holds under the referenced columns
DrawnFromSynthesized(row, fk) ==
    \E i \in 1..Len(SynthesizedFor(fk.ref_table)) :
        LET target == SynthesizedFor(fk.ref_table)[i]
        IN  \A j \in 1..Len(fk.columns) :
               /\ fk.columns[j] \in DOMAIN row
               /\ fk.ref_columns[j] \in DOMAIN target
               /\ row[fk.columns[j]] = target[fk.ref_columns[j]]

\* C23: while a data table is expanded, each expanded row holds, for every
\* foreign key to a data table synthesized earlier in the run, values of a
\* row synthesized for that table.
C23_ForeignKeysDrawnFromEarlierRows ==
    pc = "expand" =>
        \A fk \in Range(gen_table.foreign_keys) :
            (/\ HasTable(schema, fk.ref_table)
             /\ ~HasReferenceRows(GetTable(schema, fk.ref_table))
             /\ SynthesizedFor(fk.ref_table) # <<>>)
            => \A i \in 1..Len(additional_rows) :
                  DrawnFromSynthesized(additional_rows[i], fk)

\* C24: from the call of run on, no step changes the schema (the reference
\* rows, columns and keys of its tables), and a step changes the synthesized
\* rows only by adding the rows of one more table.
C24_RunLeavesSchemaUnchanged ==
    [][/\ pc # "idle" => schema' = schema
       /\ \/ calls' = calls
          \/ /\ Len(calls') = Len(calls) + 1
             /\ SubSeq(calls', 1, Len(calls)) = calls]_vars

\* a run is done that wrote the rows of a reference table and rows the
\* oracle answered for a data table
C24_Witness ==
    /\ pc = "done"
    /\ \E k \in 1..Len(calls) :
          /\ HasTable(schema, calls[k].table)
          /\ HasReferenceRows(GetTable(schema, calls[k].table))
          /\ calls[k].rows = GetTable(schema, calls[k].table).reference_data.rows
    /\ \E k \in 1..Len(calls) :
          /\ calls[k].requests # <<>>
          /\ calls[k].rows # <<>>

(***************************************************************************)
(* SerialSpec: Schema.from_json(schema.to_json()) (models/ir.py).  A dict  *)
(* is a function on its keys; None is "None" where a str may stand and     *)
(* [null |-> TRUE] where a dict may stand.  The JSON text is the document  *)
(* with every cell of a row written as its JSON token.                     *)
(***************************************************************************)
\* bool(x) of an Optional[str]
Truthy(x) == x # "None" /\ x # ""

JsonNull == [null |-> TRUE]

JsonDict(d) == [null |-> FALSE, dict |-> d]

\* ReferenceData(rows, distribution_strategy, description)
DescribedReferenceData(rows, strategy, description) ==
    [present |-> TRUE, rows |-> rows, distribution_strategy |-> strategy,
     description |-> description]

\* GenerationRule(rule_id, rule_type, target, definition, description)
GenerationRule(id, type, target, definition, description) ==
    [rule_id |-> id, rule_type |-> type, target |-> target,
     definition |-> definition, description |-> description]

\* Schema(name, tables, generation_rules, ir_version, description)
Schema(name, tables, rules, description) ==
    [name |-> name, tables |-> tables, generation_rules |-> rules,
     ir_version |-> "1.0.0", description |-> description]

ColumnToDict(c) == [name |-> c.name, data_type |-> c.kind, length |-> c.length]

ColumnFromDict(d) == Column(d.name, d.data_type, d.length)

PrimaryKeyToDict(pk) == [columns |-> pk]

PrimaryKeyFromDict(d) == d.columns

ForeignKeyToDict(fk) ==
    [columns |-> fk.columns, ref_table |-> fk.ref_table, ref_columns |-> fk.ref_columns]

ForeignKeyFromDict(d) == ForeignKey(d.columns, d.ref_table, d.ref_columns)

\* result = {"rows": ...}; the other two keys only if the value is truthy
ReferenceDataToDict(rd) ==
    LET keys == {"rows"}
                \cup (IF Truthy(rd.distribution_strategy)
                      THEN {"distribution_strategy"} ELSE {})
                \cup (IF Truthy(rd.description) THEN {"description"} ELSE {})
    IN  [k \in keys |-> rd[k]]

ReferenceDataFromDict(d) ==
    DescribedReferenceData(d["rows"], GetOr(d, "distribution_strategy", "None"),
                           GetOr(d, "description", "None"))

TableToDict(t) ==
    [name |-> t.name,
     columns |-> [i \in 1..Len(t.columns) |-> ColumnToDict(t.columns[i])],
     primary_key |-> IF t.primary_key # <<>>
                     THEN JsonDict(PrimaryKeyToDict(t.primary_key)) ELSE JsonNull,
     foreign_keys |-> [i \in 1..Len(t.foreign_keys) |-> ForeignKeyToDict(t.foreign_keys[i])],
     reference_data |-> IF t.reference_data.present
                        THEN JsonDict(ReferenceDataToDict(t.reference_data))
                        ELSE JsonNull]

\* `if data.get(key)`: the value is neither None nor an empty dict
DictGiven(v) == ~v.null /\ DOMAIN v.dict # {}

TableFromDict(d) ==
    Table(d.name,
          [i \in 1..Len(d.columns) |-> ColumnFromDict(d.columns[i])],
          IF DictGiven(d.primary_key) THEN PrimaryKeyFromDict(d.primary_key.dict) ELSE <<>>,
          [i \in 1..Len(d.foreign_keys) |-> ForeignKeyFromDict(d.foreign_keys[i])],
          IF DictGiven(d.reference_data)
          THEN ReferenceDataFromDict(d.reference_data.dict) ELSE NoReferenceData)

GenerationRuleToDict(r) ==
    [rule_id |-> r.rule_id, rule_type |-> r.rule_type, target |-> r.target,
     definition |-> r.definition, description |-> r.description]

GenerationRuleFromDict(d) ==
    GenerationRule(d.rule_id, d.rule_type, d.target, d.definition, d.description)

SchemaToDict(s) ==
    [name |-> s.name,
     tables |-> [i \in 1..Len(s.tables) |-> TableToDict(s.tables[i])],
     generation_rules |->
        [i \in 1..Len(s.generation_rules) |-> GenerationRuleToDict(s.generation_rules[i])],
     ir_version |-> s.ir_version,
     description |-> s.description]

SchemaFromDict(d) ==
    [name |-> d.name,
     tables |-> [i \in 1..Len(d.tables) |-> TableFromDict(d.tables[i])],
     generation_rules |->
        [i \in 1..Len(d.generation_rules) |-> GenerationRuleFromDict(d.generation_rules[i])],
     ir_version |-> d.ir_version,
     description |-> d.description]

\* json.dumps of a cell: a quoted str, or the bare text null, true, false
\* or the number as repr writes it
JsonDumpsValue(v) ==
    CASE v.t = "str"  -> [quoted |-> TRUE, text |-> v.s]
      [] v.t = "none" -> [quoted |-> FALSE, text |-> <<"n", "u", "l", "l">>]
      [] v.py = "bool" -> [quoted |-> FALSE,
                           text |-> IF v.n = 0 THEN <<"f", "a", "l", "s", "e">>
                                    ELSE <<"t", "r", "u", "e">>]
      [] OTHER -> [quoted |-> FALSE, text |-> PyStr(v)]

\* json.loads of a cell: a number with a point is a float, any other an int
JsonLoadsValue(token) ==
    IF token.quoted THEN StrV(token.text)
    ELSE CASE token.text = <<"n", "u", "l", "l">> -> NoneV
           [] token.text = <<"t", "r", "u", "e">> -> BoolV(TRUE)
           [] token.text = <<"f", "a", "l", "s", "e">> -> BoolV(FALSE)
           [] \E k \in 1..Len(token.text) : token.text[k] = "." ->
                 FloatV(PyFloat(StrV(token.text)).n)
           [] OTHER -> IntV(PyInt(StrV(token.text)).n \div 100)

JsonDumpsRow(row) == [k \in DOMAIN row |-> JsonDumpsValue(row[k])]

JsonLoadsRow(row) == [k \in DOMAIN row |-> JsonLoadsValue(row[k])]

\* the document with the rows of a table's reference data rewritten by Cell
WithTableRows(d, Cell(_)) ==
    IF d.reference_data.null THEN d
    ELSE [d EXCEPT !.reference_data.dict =
             [k \in DOMAIN @ |->
                 IF k = "rows"
                 THEN [i \in 1..Len(@[k]) |-> [c \in DOMAIN @[k][i] |-> Cell(@[k][i][c])]]
                 ELSE @[k]]]

\* the document with every cell rewritten by Cell
WithCells(doc, Cell(_)) ==
    [doc EXCEPT
       !.tables = [i \in 1..Len(@) |-> WithTableRows(@[i], Cell)],
       !.generation_rules =
          [i \in 1..Len(@) |->
              [@[i] EXCEPT !.definition = [c \in DOMAIN @ |-> Cell(@[c])]]]]

\* json.dumps(self.to_dict(), indent=indent)
SchemaToJson(s) == WithCells(SchemaToDict(s), JsonDumpsValue)

\* cls.from_dict(json.loads(json_str))
SchemaFromJson(text) == SchemaFromDict(WithCells(text, JsonLoadsValue))

OptionalStrs == {"None", "", "codes"}

SerialRows ==
    {<<>>,
     <<[id |-> IntV(1), weight |-> FloatV(30), active |-> BoolV(TRUE),
        note |-> NoneV, code |-> StrV(<<"1">>)],
       [id |-> IntV(12), weight |-> FloatV(100)]>>}

SerialReferenceData ==
    {NoReferenceData}
    \cup {DescribedReferenceData(rows, strategy, description) :
            rows \in SerialRows, strategy \in {"None", "", "weighted_random"},
            description \in OptionalStrs}

SerialTables ==
    {Table(name, columns, pk, fks, refData) :
        name \in {"Status", "Orders"},
        columns \in {<<IdColumn>>, <<IdColumn, Column("name", "VARCHAR", 2)>>},
        pk \in {<<>>, <<"id">>},
        fks \in {<<>>, <<StatusFk>>},
        refData \in SerialReferenceData}

\* Status with its two rows, the strategy and the description left out
SerialStatus ==
    Table("Status", <<IdColumn>>, <<"id">>, <<>>,
          DescribedReferenceData(SomeReferenceData.rows, "None", "None"))

SerialRules ==
    {<<>>,
     <<GenerationRule("r1", "value", "Orders.id",
                      [min |-> IntV(1), step |-> FloatV(150)], "None")>>}

SerialSchemas ==
    {Schema("shop", tables, rules, "None") :
        tables \in {<<>>} \cup {<<t>> : t \in SerialTables}
                   \cup {<<SerialStatus, t>> : t \in SerialTables},
        rules \in SerialRules}

FromJsonOfToJson == Returns(SchemaFromJson(SchemaToJson(call_in)))

SerialInit == CallInit(SerialSchemas)

SerialSpec == SerialInit /\ [][FromJsonOfToJson]_vars

\* the reference data of two tables are equal: both None, or equal in rows,
\* strategy and description
SameReferenceData(a, b) ==
    /\ a.present = b.present
    /\ a.present =>
          /\ a.rows = b.rows
          /\ a.distribution_strategy = b.distribution_strategy
          /\ a.description = b.description

\* C25: the schema read back from the JSON text of a schema has the same
\* name, the same number of tables, with the same names, columns, keys and
\* reference data, and the same generation rules.
C25_SerializationRoundTrips ==
    call_out # <<>> =>
        LET s == call_in
            r == call_out[1]
        IN  /\ r.name = s.name
            /\ Len(r.tables) = Len(s.tables)
            /\ \A i \in 1..Len(s.tables) :
                  /\ r.tables[i].name = s.tables[i].name
                  /\ r.tables[i].columns = s.tables[i].columns
                  /\ r.tables[i].primary_key = s.tables[i].primary_key
                  /\ r.tables[i].foreign_keys = s.tables[i].foreign_keys
                  /\ SameReferenceData(r.tables[i].reference_data,
                                       s.tables[i].reference_data)
            /\ r.generation_rules = s.generation_rules

\* C26: the repair loop of a new row ends.  The loop tests the row's
\* primary-key tuple against a set that no pass changes, so it ends only if
\* each pass that is followed by another changes the tuple; this is asked
\* of every table whose primary-key columns are all columns of the table,
\* whatever their types.
C26_RepairLoopEnds ==
    [][(/\ ~MissingKeyColumn(gen_table)
        /\ sample_rows # <<>>
        /\ pc = "repair"
        /\ pc' = "repair")
       => PkTuple(gen_table, new_row') # PkTuple(gen_table, new_row)]_vars

(***************************************************************************)
(* RetrySpec: Agent.handle_llm_error (agents/base.py) with the             *)
(* retry_llm_call of each agent class.  The provider behind a retry raises *)
(* or answers.                                                             *)
(***************************************************************************)
\* handle_llm_error is followed for retry_count up to this
MaxRetryCount == 4
\* wait_time = backoff_factor ** (3 - retry_count)
BackoffOrigin == 3

RetryAgents == {"DataSynthAgent", "RefDataAgent", "SchemaParseAgent"}

ProviderOutcomes == {"raises", "answers"}

\* self.retry_llm_call(): DataSynthAgent and RefDataAgent return what llm_call
\* returns and let its exception through; SchemaParseAgent catches every
\* exception of its call and returns None
RetryLlmCall(agent, provider) ==
    IF agent = "SchemaParseAgent"
    THEN [provider |-> provider, outcome |-> "returned",
          result |-> IF provider = "raises" THEN "None" ELSE "schema"]
    ELSE IF provider = "raises"
         THEN [provider |-> provider, outcome |-> "raised", result |-> "None"]
         ELSE [provider |-> provider, outcome |-> "returned", result |-> "response"]

\* a slip: the last retry is not made
RetriesExhaustedEarly(count) == count <= 1

\* if retry_count <= 0
RetriesExhausted(count) == count <= 0

\* the call, with the arguments call_in
HandleLlmError ==
    /\ handler_pc = "idle"
    /\ handler_pc' = "entered"
    /\ retry_count' = call_in.retry_count
    /\ UNCHANGED <<pc, schema, given_row_counts, row_counts, oracle, schedVars,
                   runVars, genVars, llm_calls, expVars, seedVars, earlier_orders,
                   convert_in, convert_out, response, parsed, call_in, call_out,
                   retries, waits, saved_errors>>

\* save_error(...); return None
GiveUp ==
    /\ handler_pc = "entered"
    /\ RetriesExhausted(retry_count)
    /\ saved_errors' = saved_errors + 1
    /\ call_out' = <<"None">>
    /\ handler_pc' = "returned"
    /\ UNCHANGED <<pc, schema, given_row_counts, row_counts, oracle, schedVars,
                   runVars, genVars, llm_calls, expVars, seedVars, earlier_orders,
                   convert_in, convert_out, response, parsed, call_in,
                   retry_count, retries, waits>>

\* time.sleep(wait_time)
Backoff ==
    /\ handler_pc = "entered"
    /\ ~RetriesExhausted(retry_count)
    /\ waits' = Append(waits, BackoffOrigin - retry_count)
    /\ handler_pc' = "slept"
    /\ UNCHANGED <<pc, schema, given_row_counts, row_counts, oracle, schedVars,
                   runVars, genVars, llm_calls, expVars, seedVars, earlier_orders,
                   convert_in, convert_out, response, parsed, call_in, call_out,
                   retry_count, retries, saved_errors>>

\* self.retry_llm_call() is entered
RetryStarts ==
    /\ handler_pc = "slept"
    /\ retries' = Append(retries, [provider |-> "asked", outcome |-> "running",
                                   result |-> "None"])
    /\ handler_pc' = "retrying"
    /\ UNCHANGED <<pc, schema, given_row_counts, row_counts, oracle, schedVars,
                   runVars, genVars, llm_calls, expVars, seedVars, earlier_orders,
                   convert_in, convert_out, response, parsed, call_in, call_out,
                   retry_count, waits, saved_errors>>

\* it returns, and handle_llm_error returns its result; or it raises, and
\* handle_llm_error(e, retry_count - 1, backoff_factor) is entered
RetryEnds ==
    /\ handler_pc = "retrying"
    /\ \E provider \in ProviderOutcomes :
          LET r == RetryLlmCall(call_in.agent, provider)
          IN  /\ retries' = [retries EXCEPT ![Len(retries)] = r]
              /\ IF r.outcome = "returned"
                 THEN /\ call_out' = <<r.result>>
                      /\ handler_pc' = "returned"
                      /\ UNCHANGED retry_count
                 ELSE /\ retry_count' = retry_count - 1
                      /\ handler_pc' = "entered"
                      /\ UNCHANGED call_out
    /\ UNCHANGED <<pc, schema, given_row_counts, row_counts, oracle, schedVars,
                   runVars, genVars, llm_calls, expVars, seedVars, earlier_orders,
                   convert_in, convert_out, response, parsed, call_in,
                   waits, saved_errors>>

RetryArguments ==
    {[agent |-> a, retry_count |-> r] : a \in RetryAgents, r \in 0..MaxRetryCount}

RetryInit == CallInit(RetryArguments)

NextRetry ==
    \/ HandleLlmError
    \/ GiveUp
    \/ Backoff
    \/ RetryStarts
    \/ RetryEnds

RetrySpec == RetryInit /\ [][NextRetry]_vars

\* the handler runs on: the wait ends, and the blocking call returns or raises
RetryLiveSpec == RetrySpec /\ WF_vars(NextRetry)

\* the retries that raised, returned, are running
RetriesWith(outcome) == {k \in 1..Len(retries) : retries[k].outcome = outcome}

\* what holds in every state of a call started with retry_count r
RetriesInOrder ==
    LET r == call_in.retry_count IN
    /\ Len(retries) <= r
    /\ Cardinality(RetriesWith("running")) <= 1
    /\ \A k \in RetriesWith("running") \cup RetriesWith("returned") :
          /\ k = Len(retries)
          /\ \A j \in 1..(k - 1) : retries[j].outcome = "raised"
    /\ handler_pc = "returned" =>
          /\ Len(call_out) = 1
          /\ RetriesWith("running") = {}
          /\ \A k \in RetriesWith("returned") :
                call_out[1] = retries[k].result /\ saved_errors = 0
          /\ (saved_errors > 0)
                <=> (Len(retries) = r /\ RetriesWith("raised") = 1..r)
          /\ saved_errors > 0 => call_out[1] = "None" /\ saved_errors = 1
    /\ handler_pc # "returned" => saved_errors = 0 /\ call_out = <<>>

\* C27: handle_llm_error called with retry_count r >= 0 returns; it calls
\* retry_llm_call at most r times, one after the other; it returns the
\* result of the first retry that does not raise; and it records the error
\* and returns None exactly when r retries were made and all raised.
C27_HandlerRetriesAtMostCountTimes ==
    /\ []RetriesInOrder
    /\ <>(handler_pc = "returned")

\* the handler gave up after the default number of retries, all raised
C27_Witness ==
    /\ handler_pc = "returned"
    /\ call_in.retry_count = RetryCount
    /\ Len(retries) = RetryCount
    /\ RetriesWith("raised") = 1..RetryCount
    /\ saved_errors = 1
    /\ call_out = <<"None">>

\* a retry returned after an earlier one raised
C27_WitnessReturned ==
    /\ handler_pc = "returned"
    /\ Len(retries) = 2
    /\ retries[1].outcome = "raised"
    /\ retries[2].outcome = "returned"
    /\ call_out = <<"response">>

\* C28: when SchemaParseAgent has handed a failed oracle call to the retry
\* policy with the default retry count and the provider failed at every
\* attempt made, no schema is returned only after RetryCount retries, each
\* after its wait.
C28_SchemaParseRetriesInFull ==
    (/\ call_in.agent = "SchemaParseAgent"
     /\ call_in.retry_count = RetryCount
     /\ handler_pc = "returned"
     /\ \A k \in 1..Len(retries) : retries[k].provider = "raises")
    => /\ call_out = <<"None">>
       /\ Len(retries) = RetryCount
       /\ Len(waits) = RetryCount

\* C29: the value a new row gets, before any repair, under a string column
\* of declared length L that is no foreign-key column is the first L
\* characters of the first 5 characters of a template's value followed by
\* two lowercase letters.
C29_StringCutToDeclaredLength ==
    (pc = "repair" /\ suffix = 1) =>
        \A k \in 1..Len(gen_table.columns) :
            LET column == gen_table.columns[k] IN
            (/\ column.kind \in {"CHAR", "VARCHAR", "TEXT", "NCHAR", "NVARCHAR", "NTEXT"}
             /\ column.length > 0
             /\ \A f \in 1..Len(gen_table.foreign_keys) :
                   column.name \notin Range(gen_table.foreign_keys[f].columns)
             /\ column.name \in DOMAIN new_row
             /\ new_row[column.name].t = "str")
            => \E i \in 1..Len(sample_rows) :
                  /\ column.name \in DOMAIN sample_rows[i]
                  /\ sample_rows[i][column.name].t = "str"
                  /\ \E x, y \in {"a", "b"} :
                        LET whole == FirstChars(sample_rows[i][column.name].s, 5)
                                     \o <<x, y>>
                        IN  /\ Len(new_row[column.name].s) <= column.length
                            /\ new_row[column.name].s
                                  = SubSeq(whole, 1, Len(new_row[column.name].s))
                            /\ Len(new_row[column.name].s)
                                  = Min(column.length, Len(whole))

(***************************************************************************)
(* AttachSpec: the two ways reference rows read from a CSV file are        *)
(* attached to a table: update_schema_with_reference_data                  *)
(* (utils/ref_data_parser.py) and RefDataAgent._apply_mapping with a       *)
(* mapping for the table.  Every value of a row is a str.                  *)
(***************************************************************************)
\* at most this many rows are read for the table
MaxAttachRows == 2

\* 'yes', 'no', 'y', 'n', 'true', 'false', 't', 'f', '1', '0', 'active',
\* 'inactive', 'enabled', 'disabled'
BooleanIndicators ==
    {<<"y", "e", "s">>, <<"n", "o">>, <<"y">>, <<"n">>,
     <<"t", "r", "u", "e">>, <<"f", "a", "l", "s", "e">>, <<"t">>, <<"f">>,
     <<"1">>, <<"0">>, <<"a", "c", "t", "i", "v", "e">>,
     <<"i", "n", "a", "c", "t", "i", "v", "e">>,
     <<"e", "n", "a", "b", "l", "e", "d">>,
     <<"d", "i", "s", "a", "b", "l", "e", "d">>}

\* 'yes', 'y', 'true', 't', '1', 'active', 'enabled'
PositiveIndicators ==
    {<<"y", "e", "s">>, <<"y">>, <<"t", "r", "u", "e">>, <<"t">>, <<"1">>,
     <<"a", "c", "t", "i", "v", "e">>, <<"e", "n", "a", "b", "l", "e", "d">>}

\* _is_boolean_ref_table: two rows of two columns, at least half of whose
\* values are boolean indicators
IsBooleanRefTable(rows) ==
    /\ Len(rows) = 2
    /\ Cardinality(DOMAIN rows[1]) = 2
    /\ LET cells == {<<c, i>> \in (DOMAIN rows[1]) \X {1, 2} :
                        LowerName(PyStr(rows[i][c])) \in BooleanIndicators}
       IN  Cardinality(cells) >= (2 * Cardinality(DOMAIN rows[1])) \div 2

\* _add_boolean_weights: 0.7 for the first row that holds a positive
\* indicator, 0.3 for the other
AddBooleanWeights(rows) ==
    IF Len(rows) # 2 THEN rows
    ELSE LET positive == {i \in 1..2 : \E c \in DOMAIN rows[i] :
                             LowerName(PyStr(rows[i][c])) \in PositiveIndicators}
         IN  IF positive = {} THEN rows
             ELSE [i \in 1..2 |->
                     Put(rows[i], "weight",
                         IF i = (CHOOSE p \in positive : \A q \in positive : p <= q)
                         THEN FloatV(70) ELSE FloatV(30))]

\* update_schema_with_reference_data, for one table found in the schema
UpdateSchemaWithReferenceData(rows) ==
    LET has_weights == \E i \in 1..Len(rows) :
                          "weight" \in DOMAIN rows[i] \/ "Weight" \in DOMAIN rows[i]
        standard == [i \in 1..Len(rows) |->
                        IF has_weights /\ "Weight" \in DOMAIN rows[i]
                        THEN Put(rows[i], "weight", rows[i]["Weight"])
                        ELSE rows[i]]
    IN  DescribedReferenceData(standard,
                               IF has_weights THEN "weighted_random" ELSE "None",
                               "Reference data")

\* _apply_mapping, for one entry of the mapping whose table is found
ApplyMapping(rows) ==
    LET has_weights == \E i \in 1..Len(rows) : "weight" \in DOMAIN rows[i]
        attached == IF ~has_weights /\ IsBooleanRefTable(rows)
                    THEN AddBooleanWeights(rows) ELSE rows
    IN  DescribedReferenceData(attached,
                               IF has_weights THEN "weighted_random" ELSE "None",
                               "Reference data")

\* the header lines of the file
AttachHeaders == {<<"code", "label">>, <<"id", "weight">>, <<"id", "Weight">>}

\* the values a line may hold under a column
AttachValues(column) ==
    CASE column = "code" -> {<<"Y">>, <<"N">>, <<"7">>}
      [] column = "label" -> {<<"Y", "e", "s">>, <<"N", "o">>, <<"G", "o", "l", "d">>}
      [] column = "id" -> {<<"1">>, <<"2">>}
      [] OTHER -> {<<"0", ".", "3">>, <<"0", ".", "7">>}

\* row = dict(zip(current_columns, values))
CsvRows(header) ==
    {[c \in Range(header) |-> StrV(line[c])] :
        line \in [Range(header) -> UNION {AttachValues(c) : c \in Range(header)}]}

CsvRowsOf(header) ==
    {row \in CsvRows(header) : \A c \in Range(header) : row[c].s \in AttachValues(c)}

RECURSIVE CsvRowLists(_, _)
\* the lists of one to n rows under header
CsvRowLists(header, n) ==
    IF n = 0 THEN {<<>>}
    ELSE LET shorter == CsvRowLists(header, n - 1)
         IN  shorter \cup {Append(l, row) : l \in shorter, row \in CsvRowsOf(header)}

AttachCalls ==
    {[path |-> path, rows |-> rows] :
        path \in {"update_schema_with_reference_data", "_apply_mapping"},
        rows \in UNION {CsvRowLists(h, MaxAttachRows) \ {<<>>} : h \in AttachHeaders}}

Attached ==
    Returns(IF call_in.path = "_apply_mapping" THEN ApplyMapping(call_in.rows)
            ELSE UpdateSchemaWithReferenceData(call_in.rows))

AttachInit == CallInit(AttachCalls)

AttachSpec == AttachInit /\ [][Attached]_vars

\* C30: when a row of the attached reference data holds the key weight, the
\* distribution strategy of the attached reference data is weighted_random,
\* on either path.
C30_WeightedRowsGetWeightedStrategy ==
    call_out # <<>> =>
        ((\E i \in 1..Len(call_out[1].rows) : "weight" \in DOMAIN call_out[1].rows[i])
            => call_out[1].distribution_strategy = "weighted_random")

=============================================================================
